---- MODULE Spec2Model ----
(***************************************************************************)
(* State-machine model of the chat SDK's session/connection lifecycle:     *)
(* the FcrmChatProvider operations (initialize, register, reset, ...),     *)
(* ChatSocketService (connect, rooms, event dispatch) and                  *)
(* ChatStorageService (persisted browser key and user data).               *)
(***************************************************************************)
EXTENDS Integers, Sequences, FiniteSets, TLC

\* ------------------------------------------------------------------ bounds
\* Socket objects that may exist (be open) at the same time.
MaxSockets == 2
\* Concurrent initialize() calls that may be in flight.
MaxInit == 2
\* Asynchronous operations (calls, pending storage writes) in flight at once.
MaxInFlight == 2
\* Subscriptions of application callbacks the channel holds at once.
MaxCallbacks == 2
\* Messages the RemoteAPI stores.
MaxPosted == 2

\* ------------------------------------------------------------------ values
NULL == "NULL"
\* connect() was not invoked / no RemoteAPI operation was called in a step
NONE == "none"

\* Identities a registration response may carry; "" is
\* parseRegistrationResponse's default when it carries no browser_key.
ServerKeys == {"", "k1"}
ChatIds == {NULL, "c7"}

\* ---- profile field values (UserData is { [key: string]: unknown }) ----
Undef == [t |-> "undef", v |-> <<>>]
Null == [t |-> "null", v |-> <<>>]
Str(s) == [t |-> "str", v |-> s]
Num(n) == [t |-> "num", v |-> n]
Bool(b) == [t |-> "bool", v |-> b]

Whitespace == {" ", "\t"}

\* String(value) as a sequence of characters
StringOf(val) ==
  CASE val.t = "str" -> val.v
    [] val.t = "num" -> IF val.v = 0 THEN <<"0">> ELSE <<"1">>
    [] val.t = "bool" -> IF val.v THEN <<"t", "r", "u", "e">>
                                  ELSE <<"f", "a", "l", "s", "e">>
    [] val.t = "null" -> <<"n", "u", "l", "l">>
    [] OTHER -> <<"u", "n", "d", "e", "f", "i", "n", "e", "d">>

RECURSIVE TrimStart(_)
TrimStart(s) ==
  IF s # <<>> /\ Head(s) \in Whitespace THEN TrimStart(Tail(s)) ELSE s

RECURSIVE TrimEnd(_)
TrimEnd(s) ==
  IF s # <<>> /\ s[Len(s)] \in Whitespace
  THEN TrimEnd(SubSeq(s, 1, Len(s) - 1)) ELSE s

\* String.prototype.trim
Trim(s) == TrimEnd(TrimStart(s))

\* userData[key]: the value of an own property, undefined when there is none
Lookup(userData, key) ==
  IF key \in DOMAIN userData THEN userData[key] ELSE Undef

\* value == null alone
IsMissingLoose(val) == val.t \in {"null", "undef"}
\* value == null || String(value).trim() === ''
IsMissing(val) ==
  \/ val.t \in {"null", "undef"}
  \/ Trim(StringOf(val)) = <<>>

\* The loop over Object.entries(requiredFields): the first entry (in
\* declaration order) whose value is missing, NULL when there is none.
RECURSIVE FirstMissing(_, _)
FirstMissing(requiredFields, userData) ==
  IF requiredFields = <<>> THEN NULL
  ELSE IF IsMissing(Lookup(userData, Head(requiredFields).key))
       THEN Head(requiredFields).key
       ELSE FirstMissing(Tail(requiredFields), userData)

\* `private-chat_${browserKey}`
RoomName(browserKey) == "private-chat_" \o browserKey

\* JS truthiness of a string | null
Truthy(k) == k # NULL /\ k # ""

\* ------------------------------------------------------ remote configuration
FieldNames == {"name", "phone"}
Field(k) == [key |-> k, label |-> k]

\* state.remoteConfig === null
NoConfig == [null |-> TRUE, isActive |-> FALSE, requiredFields |-> <<>>]
Config(active, required) ==
  [null |-> FALSE, isActive |-> active, requiredFields |-> required]

\* Configurations the server answers getConfig() with.
RemoteConfigs ==
  {Config(TRUE, <<Field("name")>>), Config(FALSE, <<Field("name")>>)}

\* -------------------------------------------------------------- user data
EmptyObj == [k \in {} |-> Undef]
Obj(k, val) == [x \in {k} |-> val]

\* Profile submissions of the lifecycle model: a complete and a blank one.
UserDatas == {Obj("name", Str(<<"a">>)), Obj("name", Str(<<" ">>))}

\* new Date().toISOString()
Now == Str(<<"T">>)

\* { ...userData, registered: true, registrationDate: ... }
WithMeta(userData) ==
  [k \in DOMAIN userData \cup {"registered", "registrationDate"} |->
     IF k = "registered" THEN Bool(TRUE)
     ELSE IF k = "registrationDate" THEN Now
     ELSE userData[k]]

\* JSON.parse(JSON.stringify(obj)): properties whose value is undefined are
\* dropped, everything else is kept.
JsonRoundTrip(obj) ==
  [k \in {x \in DOMAIN obj : obj[x].t # "undef"} |-> obj[k]]

\* AsyncStorage item of the user data: absent, or the stored JSON text
NoData == [present |-> FALSE, json |-> EmptyObj]
Data(obj) == [present |-> TRUE, json |-> JsonRoundTrip(obj)]

\* ------------------------------------------------------ ChatSocketService
SockIds == 1..MaxSockets
\* A socket slot: the state of the socket object and, for the server's side
\* of its connection, the rooms it has joined and not left
FreeSock == [st |-> "free", rooms |-> {}]

\* get isConnected(): this.socket?.connected ?? false
IsConnected(ch) == ch.cur # 0 /\ ch.socks[ch.cur].st = "connected"

\* ---- subscribers.  Each category is a Set<callback>, iterated in insertion
\* order.  Callback Core is the provider's own subscriber; callbacks
\* 1..MaxCallbacks are the application's, the odd ones throw when called.
Core == 0
UserCallbacks == 1..MaxCallbacks
Throws(c) == c # Core /\ c % 2 = 1

Categories == {"connection", "message", "typing", "browserKey"}

\* callbacks.forEach((callback) => callback(...)): the callbacks called, in
\* order; an exception of a callback ends the iteration
RECURSIVE Invoke(_)
Invoke(cbs) ==
  IF cbs = <<>> THEN <<>>
  ELSE IF Throws(Head(cbs)) THEN <<Head(cbs)>>
       ELSE <<Head(cbs)>> \o Invoke(Tail(cbs))

Threw(cbs) == \E i \in 1..Len(cbs) : Throws(cbs[i])

Has(cbs, c) == \E i \in 1..Len(cbs) : cbs[i] = c

\* A synchronous run over the channel: the channel, what it emitted on its
\* socket, what it passed to the provider's connection subscriber, the
\* category it dispatched to with the callbacks it called, and whether one
\* of them threw out of the run.
Start(ch) ==
  [ch |-> ch, out |-> <<>>, conn |-> <<>>, cat |-> NONE, invoked |-> <<>>,
   threw |-> FALSE]

\* notifyConnectionChange / notifyMessage / notifyTyping /
\* notifyBrowserKeyUpdate
Notify(r, cat) ==
  [r EXCEPT !.cat = cat,
            !.invoked = @ \o Invoke(r.ch.callbacks[cat]),
            !.threw = Threw(r.ch.callbacks[cat])]

NotifyConnectionChange(r, connected) ==
  LET told == Notify(r, "connection")
  IN IF Has(Invoke(r.ch.callbacks["connection"]), Core)
     THEN [told EXCEPT !.conn = Append(@, connected)]
     ELSE told

\* socket.emit('join' | 'leave', room)
Emit(r, ev, room) ==
  LET sent == [r EXCEPT !.out = Append(@, [ev |-> ev, room |-> room,
                                           sock |-> r.ch.cur])]
  IN IF r.ch.cur = 0 THEN sent
     ELSE [sent EXCEPT !.ch.socks[r.ch.cur].rooms =
                         IF ev = "join" THEN @ \cup {room} ELSE @ \ {room}]

\* joinChatRoom without its test of socket.connected
JoinChatRoomUnguarded(r, browserKey) ==
  [Emit(r, "join", RoomName(browserKey)) EXCEPT !.ch.key = browserKey]

JoinChatRoom(r, browserKey) ==
  IF ~IsConnected(r.ch) THEN r
  ELSE [Emit(r, "join", RoomName(browserKey)) EXCEPT !.ch.key = browserKey]

LeaveChatRoom(r, browserKey) ==
  IF ~IsConnected(r.ch) THEN r
  ELSE Emit(r, "leave", RoomName(browserKey))

\* sendTyping(browserKey, isTyping):
\* socket.emit('typing', { browser_key: browserKey, isTyping })
SendTyping(r, browserKey, isTyping) ==
  IF ~IsConnected(r.ch) THEN r
  ELSE [r EXCEPT !.out = Append(@, [ev |-> "typing",
                                    browser_key |-> browserKey,
                                    isTyping |-> isTyping,
                                    sock |-> r.ch.cur])]

\* updateBrowserKey that joins the new room before it leaves the old one
UpdateBrowserKeyJoinFirst(r, browserKey) ==
  IF browserKey = r.ch.key THEN r
  ELSE LET old == r.ch.key
           set == [r EXCEPT !.ch.key = browserKey]
           joined == IF IsConnected(set.ch) THEN JoinChatRoom(set, browserKey)
                     ELSE set
       IN IF Truthy(old) /\ IsConnected(joined.ch)
          THEN LeaveChatRoom(joined, old) ELSE joined

UpdateBrowserKey(r, browserKey) ==
  IF browserKey = r.ch.key THEN r
  ELSE LET left == IF Truthy(r.ch.key) /\ IsConnected(r.ch)
                   THEN LeaveChatRoom(r, r.ch.key) ELSE r
           set == [left EXCEPT !.ch.key = browserKey]
       IN IF IsConnected(set.ch) THEN JoinChatRoom(set, browserKey) ELSE set

\* io(): a new socket object, on the lowest free slot
CanOpen(ch) == \E s \in SockIds : ch.socks[s].st = "free"
NewSock(ch) ==
  CHOOSE s \in SockIds :
    /\ ch.socks[s].st = "free"
    /\ \A t \in SockIds : ch.socks[t].st = "free" => s <= t

\* connect(socketUrl, apiKey, browserKey?); browserKey NULL is undefined
Connect(r, browserKey) ==
  IF IsConnected(r.ch) THEN r
  ELSE [r EXCEPT
          !.ch.key = IF Truthy(browserKey) THEN browserKey ELSE @,
          !.ch.socks[NewSock(r.ch)] = [st |-> "connecting", rooms |-> {}],
          !.ch.cur = NewSock(r.ch)]

\* disconnect(): socket.disconnect() closes the socket (its 'disconnect'
\* listener runs inside that call when the socket was connected), then
\* this.socket = null, currentBrowserKey = null and the explicit
\* notification.  A callback that throws ends the method where it is.
Disconnect(r) ==
  IF r.ch.cur = 0 THEN r
  ELSE LET closed == [r EXCEPT !.ch.socks[r.ch.cur] = FreeSock]
           heard == IF IsConnected(r.ch)
                    THEN NotifyConnectionChange(closed, FALSE) ELSE closed
       IN IF heard.threw THEN heard
          ELSE NotifyConnectionChange(
                 [heard EXCEPT !.ch.cur = 0, !.ch.key = NULL], FALSE)

\* The provider's connection subscriber:
\* setState((prev) => ({ ...prev, isConnected: connected }))
ApplyConn(st, conn) ==
  IF conn = <<>> THEN st ELSE [st EXCEPT !.isConnected = conn[Len(conn)]]

\* ------------------------------------------------------------------ state
\* ------------------------------------------------------- paginated messages
\* value ?? fallback
Coalesce(val, fallback) ==
  IF val.t \in {"null", "undef"} THEN fallback ELSE val.v

Arr(seq) == [t |-> "arr", v |-> seq]

\* perPage of loadMessages() and getMessages() when the caller gives none
DefaultPerPage == 20

\* Arguments of loadMessages(page, perPage)
Pages == {1, 2}
PerPages == {1, DefaultPerPage}

\* Texts the application sends
Contents == {"m", "n"}

\* createEmptyPaginatedMessages(perPage)
CreateEmptyPaginatedMessages(perPage) ==
  [messages |-> <<>>, total |-> 0, currentPage |-> 1, perPage |-> perPage,
   lastPage |-> 1, hasMore |-> FALSE]

\* A parse that takes no content from the response
ParseChatMessageBlank(json) ==
  [id |-> Coalesce(Lookup(json, "id"), 0),
   chatId |-> Coalesce(Lookup(json, "chat_id"), 0),
   content |-> <<>>,
   isRead |-> Coalesce(Lookup(json, "is_read"), FALSE)]

\* parseChatMessage(json): id, chatId, content and isRead (the sender, the
\* type, the dates and the metadata are not modelled)
ParseChatMessage(json) ==
  [id |-> Coalesce(Lookup(json, "id"), 0),
   chatId |-> Coalesce(Lookup(json, "chat_id"), 0),
   content |-> Coalesce(Lookup(json, "content"), <<>>),
   isRead |-> Coalesce(Lookup(json, "is_read"), FALSE)]

\* A parse that reports more pages up to and including the last one
ParsePaginatedMessagesInclusive(json) ==
  LET currentPage == Coalesce(Lookup(json, "current_page"), 1)
      lastPage == Coalesce(Lookup(json, "last_page"), 1)
  IN [messages |-> <<>>,
      total |-> Coalesce(Lookup(json, "total"), 0),
      currentPage |-> currentPage,
      perPage |-> Coalesce(Lookup(json, "per_page"), DefaultPerPage),
      lastPage |-> lastPage,
      hasMore |-> currentPage <= lastPage]

\* parsePaginatedMessages(json)
ParsePaginatedMessages(json) ==
  LET messagesData == Coalesce(Lookup(json, "messages"), <<>>)
      currentPage == Coalesce(Lookup(json, "current_page"), 1)
      lastPage == Coalesce(Lookup(json, "last_page"), 1)
  IN [messages |-> [n \in DOMAIN messagesData |->
                      ParseChatMessage(messagesData[n])],
      total |-> Coalesce(Lookup(json, "total"), 0),
      currentPage |-> currentPage,
      perPage |-> Coalesce(Lookup(json, "per_page"), DefaultPerPage),
      lastPage |-> lastPage,
      hasMore |-> currentPage < lastPage]

\* A message as the RemoteAPI returns it
MessageJson(row) ==
  [f \in {"id", "content", "is_read"} |->
     CASE f = "id" -> Num(row.id)
       [] f = "content" -> Str(<<row.content>>)
       [] OTHER -> Bool(FALSE)]

\* The response to POST /messages of a RemoteAPI that stores what it was
\* sent and returns it page by page, oldest first
MessagesResponse(sent, browserKey, page, perPage) ==
  LET rows == SelectSeq(sent, LAMBDA row : row.key = browserKey)
      total == Len(rows)
      lastPage == IF total = 0 THEN 1 ELSE (total + perPage - 1) \div perPage
      from == (page - 1) * perPage
      count == IF total - from < 0 THEN 0
               ELSE IF total - from < perPage THEN total - from ELSE perPage
  IN [f \in {"messages", "total", "current_page", "per_page", "last_page"}
        |-> CASE f = "messages" ->
                   Arr([n \in 1..count |-> MessageJson(rows[from + n])])
              [] f = "total" -> Num(total)
              [] f = "current_page" -> Num(page)
              [] f = "per_page" -> Num(perPage)
              [] OTHER -> Num(lastPage)]

VARIABLES
  state,     \* ChatState published by the provider (useState)
  store,     \* AsyncStorage: the browser key item and the user data item
  chan,      \* ChatSocketService: sockets, this.socket, currentBrowserKey
  emits,     \* what the latest step emitted on a socket, in order
  inits,     \* the initialize() calls in flight
  reg,       \* the register() call in flight
  rst,       \* the reset() call in flight
  clears,    \* removeItem calls of clearAll() not yet completed
  load,      \* the loadMessages() call in flight
  upd,       \* the updateBrowser() / updateUserData() call in flight
  keySave,   \* saveBrowserKey() started by the browser-key subscriber
  last,      \* the latest step: operation, how it ended, what it called
  owner,     \* how the application calls: it "awaits" each call before the
             \* next one, or "overlaps" calls
  posted,    \* the messages the RemoteAPI has stored, in the order sent
  up,        \* the application's CancelToken and the upload started with it
  mount,     \* whether the mount effect has constructed the services, and
             \* the unsubscribe closures the accessors have returned
  typ,       \* useChatTyping: its two refs, the timers it has scheduled and
             \* the notifications it has passed to the provider
  list       \* useChatMessages: its state, the state its closures were
             \* rendered with, and its loadMessages calls in flight

vars ==
  <<state, store, chan, emits, inits, reg, rst, clears, load, upd, keySave,
    last, owner, posted, up, mount, typ, list>>

InitIds == 1..MaxInit
IdleInit == [pc |-> "idle", cfg |-> NoConfig, bk |-> NULL]
IdleReg == [pc |-> "idle", data |-> EmptyObj, key |-> NULL, chat |-> NULL]
IdleLoad == [pc |-> "idle", bk |-> NULL, page |-> 1, perPage |-> 1]
IdleUpd == [pc |-> "idle", op |-> NONE, data |-> EmptyObj]

\* new CancelToken(): _isCancelled = false and a fresh axios source.  calls
\* counts the cancel() calls on the handle, triggers the _source.cancel()
\* calls; the other fields are the upload the handle was passed to: whether
\* its POST is in flight, the operation and the identity it was started
\* with, the POSTs issued so far, and how the latest upload ended.
NewCancelToken == [isCancelled |-> FALSE, calls |-> 0, triggers |-> 0]
NewUpload ==
  [token |-> NewCancelToken, pc |-> "idle", op |-> NONE, bk |-> NULL,
   requests |-> 0, outcome |-> NONE]

\* Errors that reach the caller as a rejected promise.
Raised ==
  {"NotInitialized", "NotRegistered", "MissingRequiredField", "ApiError",
   "StorageError", "InactiveApp", "CallbackError", "UploadCancelled"}

\* The latest step: the operation or event, whether it is a call, the
\* resumption of one or a socket event, how it ended, the RemoteAPI method
\* it called and with which identity, the identity it passed to connect(),
\* the argument of the call, the socket of the event, and the subscriber
\* category it dispatched to with the callbacks that were called.
Last(op, phase, outcome, api, apiKey, connect) ==
  [op |-> op, phase |-> phase, outcome |-> outcome, api |-> api,
   apiKey |-> apiKey, connect |-> connect, arg |-> EmptyObj, sock |-> 0,
   cat |-> NONE, invoked |-> <<>>, result |-> <<>>]

\* A step that calls neither RemoteAPI nor connect()
Quiet(op, phase, outcome) == Last(op, phase, outcome, NONE, NULL, NONE)

\* The outcome of a synchronous run over the channel
Ended(run) == IF run.threw THEN "CallbackError" ELSE "ok"

\* A step that dispatched to the subscribers of a category
Heard(l, run) == [l EXCEPT !.cat = run.cat, !.invoked = run.invoked]

\* A socket event on socket s
Event(op, s, outcome) == [Quiet(op, "event", outcome) EXCEPT !.sock = s]

B2N(b) == IF b THEN 1 ELSE 0

\* The setState calls of the step recorded in l: one for each call of the
\* provider's own subscriber, and the setState of the operation itself
\* (initialize publishes on success and in its catch block; register and
\* reset publish when they return normally)
Published(l) ==
  Cardinality({n \in DOMAIN l.invoked : l.invoked[n] = Core})
  + B2N(/\ l.phase = "resume"
        /\ \/ l.op = "initialize" /\ l.outcome # "pending"
           \/ l.op \in {"register", "reset"} /\ l.outcome = "ok")

InFlight ==
  Cardinality({i \in InitIds : inits[i].pc # "idle"})
  + B2N(reg.pc # "idle") + B2N(rst # "idle" \/ clears # {})
  + B2N(load.pc # "idle") + B2N(upd.pc # "idle") + B2N(keySave # NULL)

CanStart == InFlight < MaxInFlight

\* No call of the owner is waiting for RemoteAPI or LocalStore
NoCallInFlight ==
  /\ \A i \in InitIds : inits[i].pc = "idle"
  /\ reg.pc = "idle"
  /\ rst = "idle"
  /\ load.pc = "idle"
  /\ upd.pc = "idle"

\* The owner may issue a call now
Admitted == owner = "overlaps" \/ NoCallInFlight

\* new ChatSocketService(...) with the two subscriptions of the provider's
\* mount effect
NewChannel ==
  [socks |-> [s \in SockIds |-> FreeSock], cur |-> 0, key |-> NULL,
   callbacks |-> [cat \in Categories |->
                    IF cat \in {"connection", "browserKey"}
                    THEN <<Core>> ELSE <<>>]]

\* What a previous run of the application may have left in AsyncStorage.
PersistedStores ==
  {[key |-> NULL, data |-> NoData],
   [key |-> "k1", data |-> Data(WithMeta(Obj("name", Str(<<"a">>))))]}

\* The initial useState value
FreshState ==
  [isInitialized |-> FALSE, isConnected |-> FALSE, isRegistered |-> FALSE,
   remoteConfig |-> NoConfig, browserKey |-> NULL, chatId |-> NULL,
   error |-> NULL]

\* useChatTyping as mounted: isCurrentlyTypingRef false, typingTimeoutRef
\* null (0), no setTimeout call made so far, no timer pending, nothing passed
\* to the provider's sendTyping
NewTyping ==
  [mounted |-> TRUE, typing |-> FALSE, ref |-> 0, scheduled |-> 0,
   timers |-> {}, sent |-> <<>>]

\* useChatMessages as mounted: the useState initial values
NewPagination == [hasMore |-> FALSE, currentPage |-> 0, lastPage |-> 1]
NewList ==
  [messages |-> <<>>, isLoading |-> FALSE, error |-> FALSE,
   pagination |-> NewPagination,
   seen |-> [isLoading |-> FALSE, pagination |-> NewPagination],
   refreshes |-> 0, loadMores |-> 0, fetches |-> {}]

\* No call in flight, nothing emitted
Idle ==
  /\ emits = <<>>
  /\ inits = [i \in InitIds |-> IdleInit]
  /\ reg = IdleReg
  /\ rst = "idle"
  /\ clears = {}
  /\ load = IdleLoad
  /\ upd = IdleUpd
  /\ keySave = NULL
  /\ last = Quiet("none", "none", "none")
  /\ posted = <<>>
  /\ up = NewUpload
  /\ typ = NewTyping
  /\ list = NewList

\* The provider after its mount effect: the three services exist
Mounted == [made |-> TRUE, closures |-> {}]

Init ==
  /\ state = FreshState
  /\ store \in PersistedStores
  /\ chan = NewChannel
  /\ owner = "awaits"
  /\ mount = Mounted
  /\ Idle

\* The same provider under an application that overlaps its calls
InitRace ==
  /\ state = FreshState
  /\ store \in PersistedStores
  /\ chan = NewChannel
  /\ owner = "overlaps"
  /\ mount = Mounted
  /\ Idle

\* ChatStorageService.isRegistered() on the stored item
StoreIsRegistered(key) == key # NULL /\ key # ""

\* -------------------------------------------------------------- initialize
\* initialize() on a rendered state that is already initialized: return
InitializeNoop ==
  /\ Admitted
  /\ state.isInitialized
  /\ last' = Quiet("initialize", "call", "noop")
  /\ emits' = <<>>
  /\ UNCHANGED <<owner, typ, list, mount, posted, up, state, store, chan,
                 inits, reg, rst, clears, load, upd, keySave>>

\* initialize(): passes the guard and awaits apiService.getConfig()
InitializeCall ==
  /\ Admitted
  /\ ~state.isInitialized
  /\ CanStart
  /\ \E i \in InitIds :
       /\ inits[i].pc = "idle"
       /\ \A j \in InitIds : inits[j].pc = "idle" => i <= j
       /\ inits' = [inits EXCEPT ![i].pc = "config"]
  /\ last' = Last("initialize", "call", "pending", "getConfig", NULL, NONE)
  /\ emits' = <<>>
  /\ UNCHANGED <<owner, typ, list, mount, posted, up, state, store, chan, reg,
                 rst, clears, load, upd, keySave>>

\* initialize() through a function reference taken in a render in which
\* isInitialized was false: useCallback captured that value, so the guard
\* passes although the session has been initialized since
InitializeStale ==
  /\ Admitted
  /\ state.isInitialized
  /\ CanStart
  /\ \E i \in InitIds :
       /\ inits[i].pc = "idle"
       /\ \A j \in InitIds : inits[j].pc = "idle" => i <= j
       /\ inits' = [inits EXCEPT ![i].pc = "config"]
  /\ last' = Last("initialize", "call", "pending", "getConfig", NULL, NONE)
  /\ emits' = <<>>
  /\ UNCHANGED <<owner, typ, list, mount, posted, up, state, store, chan, reg,
                 rst, clears, load, upd, keySave>>

\* A catch block that rethrows without recording the error
InitializeFailUnrecorded(i, err) ==
  /\ inits' = [inits EXCEPT ![i] = IdleInit]
  /\ last' = Quiet("initialize", "resume", err)
  /\ emits' = <<>>
  /\ UNCHANGED <<owner, typ, list, mount, posted, up, state, store, chan, reg,
                 rst, clears, load, upd, keySave>>

\* The catch block: setState((prev) => ({ ...prev, error })); throw e
InitializeFail(i, err) ==
  /\ state' = [state EXCEPT !.error = err]
  /\ inits' = [inits EXCEPT ![i] = IdleInit]
  /\ last' = Quiet("initialize", "resume", err)
  /\ emits' = <<>>
  /\ UNCHANGED <<owner, typ, list, mount, posted, up, store, chan, reg, rst,
                 clears, load, upd, keySave>>

\* getConfig() settles (an inactive configuration throws), then
\* await storageService.getBrowserKey()
InitializeConfig(i) ==
  /\ inits[i].pc = "config"
  /\ \/ InitializeFail(i, "ApiError")
     \/ \E cfg \in RemoteConfigs :
          /\ ~cfg.isActive
          /\ InitializeFail(i, "InactiveApp")
     \/ InitializeFail(i, "StorageError")
     \/ \E cfg \in RemoteConfigs :
          /\ cfg.isActive
          /\ inits' = [inits EXCEPT ![i].pc = "readReg", ![i].cfg = cfg,
                                    ![i].bk = store.key]
          /\ last' = Quiet("initialize", "resume", "pending")
          /\ emits' = <<>>
          /\ UNCHANGED <<owner, typ, list, mount, posted, up, state, store,
                         chan, reg, rst, clears, load, upd, keySave>>

\* The state initialize() publishes
InitializedState(st, cfg, bk, registered) ==
  [st EXCEPT !.isInitialized = TRUE, !.isRegistered = registered,
             !.remoteConfig = cfg, !.browserKey = bk, !.error = NULL]

\* await storageService.isRegistered(), then socketService.connect(...) and
\* the setState of the successful path
InitializeFinish(i) ==
  /\ inits[i].pc = "readReg"
  /\ \/ InitializeFail(i, "StorageError")
     \/ /\ IsConnected(chan) \/ CanOpen(chan)
        /\ LET run == Connect(Start(chan), inits[i].bk)
           IN /\ chan' = run.ch
              /\ emits' = run.out
              /\ state' = InitializedState(ApplyConn(state, run.conn),
                                           inits[i].cfg, inits[i].bk,
                                           StoreIsRegistered(store.key))
        /\ inits' = [inits EXCEPT ![i] = IdleInit]
        /\ last' = Last("initialize", "resume", "ok", NONE, NULL,
                        inits[i].bk)
        /\ UNCHANGED <<owner, typ, list, mount, posted, up, store, reg, rst,
                       clears, load, upd, keySave>>

\* ---------------------------------------------------------------- register
\* register(userData): the guard, the required-field validation and the
\* call of apiService.registerBrowser
RegisterCall(userData) ==
  /\ Admitted
  /\ reg.pc = "idle"
  /\ emits' = <<>>
  /\ \/ /\ ~state.isInitialized
        /\ last' = [Quiet("register", "call", "NotInitialized")
                      EXCEPT !.arg = userData]
        /\ UNCHANGED reg
     \/ /\ state.isInitialized
        /\ FirstMissing(state.remoteConfig.requiredFields, userData) # NULL
        /\ last' = [Quiet("register", "call", "MissingRequiredField")
                      EXCEPT !.arg = userData]
        /\ UNCHANGED reg
     \/ /\ state.isInitialized
        /\ FirstMissing(state.remoteConfig.requiredFields, userData) = NULL
        /\ CanStart
        /\ reg' = [IdleReg EXCEPT !.pc = "api", !.data = userData]
        /\ last' = [Last("register", "call", "pending", "registerBrowser",
                          NULL, NONE) EXCEPT !.arg = userData]
  /\ UNCHANGED <<owner, typ, list, mount, posted, up, state, store, chan,
                 inits, rst, clears, load, upd, keySave>>

\* A failure after the guards: the promise rejects, nothing is published
RegisterFail(err) ==
  /\ reg' = IdleReg
  /\ last' = Quiet("register", "resume", err)
  /\ emits' = <<>>
  /\ UNCHANGED <<owner, typ, list, mount, posted, up, state, store, chan,
                 inits, rst, clears, load, upd, keySave>>

\* registerBrowser settles with parseRegistrationResponse's result, then
\* await storageService.saveBrowserKey(response.browserKey)
RegisterResponse ==
  /\ reg.pc = "api"
  /\ \/ RegisterFail("ApiError")
     \/ RegisterFail("StorageError")
     \/ \E k \in ServerKeys, c \in ChatIds :
          /\ store' = [store EXCEPT !.key = k]
          /\ reg' = [reg EXCEPT !.pc = "saveData", !.key = k, !.chat = c]
          /\ last' = Quiet("register", "resume", "pending")
          /\ emits' = <<>>
          /\ UNCHANGED <<owner, typ, list, mount, posted, up, state, chan,
                         inits, rst, clears, load, upd, keySave>>

\* The user data item register() writes
RegisteredData(userData) == Data(WithMeta(userData))

\* A setState that leaves chatId as it was
RegisteredStateKeepingChat(st, key, chat) ==
  [st EXCEPT !.isRegistered = TRUE, !.browserKey = key]

\* The state register() publishes
RegisteredState(st, key, chat) ==
  [st EXCEPT !.isRegistered = TRUE, !.browserKey = key, !.chatId = chat]

\* await storageService.saveUserData(userDataWithMeta), then
\* socketService.updateBrowserKey(...) and setState
RegisterFinish ==
  /\ reg.pc = "saveData"
  /\ \/ RegisterFail("StorageError")
     \/ /\ store' = [store EXCEPT !.data = RegisteredData(reg.data)]
        /\ LET run == UpdateBrowserKey(Start(chan), reg.key)
           IN /\ chan' = run.ch
              /\ emits' = run.out
              /\ state' = RegisteredState(ApplyConn(state, run.conn),
                                          reg.key, reg.chat)
        /\ reg' = IdleReg
        /\ last' = Quiet("register", "resume", "ok")
        /\ UNCHANGED <<owner, typ, list, mount, posted, up, inits, rst,
                       clears, load, upd, keySave>>

\* ------------------------------------------------------------------- reset
\* reset(): storageService.clearAll() starts both removeItem calls
ResetCall ==
  /\ Admitted
  /\ rst = "idle"
  /\ clears = {}
  /\ CanStart
  /\ rst' = "clearing"
  /\ clears' = {"key", "data"}
  /\ last' = Quiet("reset", "call", "pending")
  /\ emits' = <<>>
  /\ UNCHANGED <<owner, typ, list, mount, posted, up, state, store, chan,
                 inits, reg, load, upd, keySave>>

\* A removal that leaves an empty value behind instead of no item
ClearedToEmpty(st, item) ==
  IF item = "key" THEN [st EXCEPT !.key = ""]
  ELSE [st EXCEPT !.data = Data(EmptyObj)]

Cleared(st, item) ==
  IF item = "key" THEN [st EXCEPT !.key = NULL] ELSE [st EXCEPT !.data = NoData]

\* A reset() that keeps the chat id of the registration
ResetStateKeepingChat(st) ==
  [st EXCEPT !.isRegistered = FALSE, !.browserKey = NULL]

\* A reset() that takes the session back to its first state
ResetStateUninitialized(st) ==
  [st EXCEPT !.isInitialized = FALSE, !.isRegistered = FALSE,
             !.browserKey = NULL, !.chatId = NULL]

\* The state reset() publishes
ResetState(st) ==
  [st EXCEPT !.isRegistered = FALSE, !.browserKey = NULL, !.chatId = NULL]

\* One removeItem of clearAll() completes; when it is the last one of a
\* reset() still waiting, reset() goes on: disconnect() and, unless that
\* threw, setState.
ResetCleared(item) ==
  /\ item \in clears
  /\ clears' = clears \ {item}
  /\ store' = Cleared(store, item)
  /\ \/ /\ rst = "clearing"
        /\ clears' = {}
        /\ LET run == Disconnect(Start(chan))
               told == ApplyConn(state, run.conn)
           IN /\ chan' = run.ch
              /\ emits' = run.out
              /\ state' = IF run.threw THEN told ELSE ResetState(told)
              /\ last' = Heard(Quiet("reset", "resume", Ended(run)), run)
        /\ rst' = "idle"
     \/ /\ rst = "clearing" => clears' # {}
        /\ last' = Quiet("reset", "resume", "pending")
        /\ emits' = <<>>
        /\ UNCHANGED <<state, chan, rst>>
  /\ UNCHANGED <<owner, typ, list, mount, posted, up, inits, reg, load, upd,
                 keySave>>

\* One removeItem fails: Promise.all rejects, so a waiting reset() throws,
\* while the other removeItem runs on.
ResetClearFailed(item) ==
  /\ item \in clears
  /\ clears' = clears \ {item}
  /\ rst' = "idle"
  /\ last' = Quiet("reset", "resume",
                   IF rst = "clearing" THEN "StorageError" ELSE "pending")
  /\ emits' = <<>>
  /\ UNCHANGED <<owner, typ, list, mount, posted, up, state, store, chan,
                 inits, reg, load, upd, keySave>>

\* ------------------------------------------------ channel operations, owner
\* disconnect(): socketServiceRef.current?.disconnect()
DisconnectCall ==
  /\ Admitted
  /\ LET run == Disconnect(Start(chan))
     IN /\ chan' = run.ch
        /\ emits' = run.out
        /\ state' = ApplyConn(state, run.conn)
        /\ last' = Heard(Quiet("disconnect", "call", Ended(run)), run)
  /\ UNCHANGED <<owner, typ, list, mount, posted, up, store, inits, reg, rst,
                 clears, load, upd, keySave>>

\* reconnect(): connect again with the held configuration and identity
ReconnectCall ==
  /\ Admitted
  /\ \/ /\ state.remoteConfig.null
        /\ last' = Quiet("reconnect", "call", "noop")
        /\ emits' = <<>>
        /\ UNCHANGED <<state, chan>>
     \/ /\ ~state.remoteConfig.null
        /\ IsConnected(chan) \/ CanOpen(chan)
        /\ LET run == Connect(Start(chan), state.browserKey)
           IN /\ chan' = run.ch
              /\ emits' = run.out
              /\ state' = ApplyConn(state, run.conn)
        /\ last' = Last("reconnect", "call", "ok", NONE, NULL,
                        state.browserKey)
  /\ UNCHANGED <<owner, typ, list, mount, posted, up, store, inits, reg, rst,
                 clears, load, upd, keySave>>

\* ----------------------------------------------------------- socket events
\* The body of the 'connect' and 'reconnect' listeners:
\* notifyConnectionChange(true), then, with a tracked identity,
\* joinChatRoom(currentBrowserKey)
Connected(r) ==
  LET told == NotifyConnectionChange(r, TRUE)
  IN IF ~told.threw /\ Truthy(told.ch.key)
     THEN JoinChatRoom(told, told.ch.key) ELSE told

\* 'connect': the socket is connected
SockConnect(s) ==
  /\ chan.socks[s].st = "connecting"
  /\ LET run == Connected(Start([chan EXCEPT !.socks[s].st = "connected"]))
     IN /\ chan' = run.ch
        /\ emits' = run.out
        /\ state' = ApplyConn(state, run.conn)
        /\ last' = Heard(Event("connect", s, Ended(run)), run)
  /\ UNCHANGED <<owner, typ, list, mount, posted, up, store, inits, reg, rst,
                 clears, load, upd, keySave>>

\* 'connect_error': the attempt failed; the manager will retry
SockConnectError(s) ==
  /\ chan.socks[s].st = "connecting"
  /\ LET run == NotifyConnectionChange(
                  Start([chan EXCEPT !.socks[s].st = "reconnecting"]), FALSE)
     IN /\ chan' = run.ch
        /\ emits' = run.out
        /\ state' = ApplyConn(state, run.conn)
        /\ last' = Heard(Event("connect_error", s, Ended(run)), run)
  /\ UNCHANGED <<owner, typ, list, mount, posted, up, store, inits, reg, rst,
                 clears, load, upd, keySave>>

\* 'disconnect': a connected socket lost its connection, and with it the
\* rooms of that connection
SockDrop(s) ==
  /\ chan.socks[s].st = "connected"
  /\ LET run == NotifyConnectionChange(
                  Start([chan EXCEPT !.socks[s] = [st |-> "reconnecting",
                                                   rooms |-> {}]]), FALSE)
     IN /\ chan' = run.ch
        /\ emits' = run.out
        /\ state' = ApplyConn(state, run.conn)
        /\ last' = Heard(Event("disconnect", s, Ended(run)), run)
  /\ UNCHANGED <<owner, typ, list, mount, posted, up, store, inits, reg, rst,
                 clears, load, upd, keySave>>

\* The manager's 'reconnect': the transport is open again, the socket's own
\* 'connect' follows
SockReconnect(s) ==
  /\ chan.socks[s].st = "reconnecting"
  /\ LET run == Connected(Start([chan EXCEPT !.socks[s].st = "connecting"]))
     IN /\ chan' = run.ch
        /\ emits' = run.out
        /\ state' = ApplyConn(state, run.conn)
        /\ last' = Heard(Event("reconnect", s, Ended(run)), run)
  /\ UNCHANGED <<owner, typ, list, mount, posted, up, store, inits, reg, rst,
                 clears, load, upd, keySave>>

\* reconnectionAttempts are used up: the socket stays closed; none of the
\* listeners of setupListeners hears of it
SockGiveUp(s) ==
  /\ chan.socks[s].st = "reconnecting"
  /\ chan' = [chan EXCEPT !.socks[s] = FreeSock]
  /\ last' = Event("reconnect_failed", s, "ok")
  /\ emits' = <<>>
  /\ UNCHANGED <<owner, typ, list, mount, posted, up, state, store, inits,
                 reg, rst, clears, load, upd, keySave>>

\* Identities a 'browser-key-updated' event may carry
RotatedKeys == {"k2"}

\* A listener that notifies without tracking the new key
SockBrowserKeyUpdatedUntracked(s, k) ==
  /\ chan.socks[s].st = "connected"
  /\ keySave = NULL
  /\ CanStart
  /\ LET run == Notify(Start(chan), "browserKey")
         core == Has(run.invoked, Core)
     IN /\ chan' = run.ch
        /\ emits' = run.out
        /\ state' = IF core THEN [state EXCEPT !.browserKey = k] ELSE state
        /\ keySave' = IF core THEN k ELSE NULL
        /\ last' = Heard(Event("browser-key-updated", s, Ended(run)), run)
  /\ UNCHANGED <<owner, typ, list, mount, posted, up, store, inits, reg, rst,
                 clears, load, upd>>

\* 'browser-key-updated': the channel tracks the new key and notifies; the
\* provider's subscriber publishes it and starts saveBrowserKey(key)
SockBrowserKeyUpdated(s, k) ==
  /\ chan.socks[s].st = "connected"
  /\ keySave = NULL
  /\ CanStart
  /\ LET run == Notify(Start([chan EXCEPT !.key = k]), "browserKey")
         core == Has(run.invoked, Core)
     IN /\ chan' = run.ch
        /\ emits' = run.out
        /\ state' = IF core THEN [state EXCEPT !.browserKey = k] ELSE state
        /\ keySave' = IF core THEN k ELSE NULL
        /\ last' = Heard(Event("browser-key-updated", s, Ended(run)), run)
  /\ UNCHANGED <<owner, typ, list, mount, posted, up, store, inits, reg, rst,
                 clears, load, upd>>

\* The socket events handleMessage listens to
MessageEvents ==
  {"App:Events:Chat:MessageEvent", "App\\Events\\Chat\\MessageEvent",
   "App:Events:Telegram:MessageEvent", "App\\Events\\Telegram\\MessageEvent",
   "App:Events:Chat:MessageEditedEvent"}

\* A message event: handleMessage parses the payload and notifies inside a
\* try block, whose catch logs what a callback throws
SockMessage(s, name) ==
  /\ chan.socks[s].st = "connected"
  /\ LET run == Notify(Start(chan), "message")
     IN last' = Heard(Event(name, s, "ok"), run)
  /\ emits' = <<>>
  /\ UNCHANGED <<owner, typ, list, mount, posted, up, state, store, chan,
                 inits, reg, rst, clears, load, upd, keySave>>

\* 'typing': notifyTyping(isTyping)
SockTyping(s) ==
  /\ chan.socks[s].st = "connected"
  /\ LET run == Notify(Start(chan), "typing")
     IN last' = Heard(Event("typing", s, Ended(run)), run)
  /\ emits' = <<>>
  /\ UNCHANGED <<owner, typ, list, mount, posted, up, state, store, chan,
                 inits, reg, rst, clears, load, upd, keySave>>

\* ------------------------------------------------------------ subscriptions
Subscribed ==
  Cardinality({<<cat, c>> \in Categories \X UserCallbacks :
                 Has(chan.callbacks[cat], c)})

Remove(cbs, c) == SelectSeq(cbs, LAMBDA x : x # c)

\* onConnectionChange / onMessage / onTyping / onBrowserKeyUpdate:
\* callbacks.add(callback)
Subscribe(cat, c) ==
  /\ Admitted
  /\ ~Has(chan.callbacks[cat], c)
  /\ Subscribed < MaxCallbacks
  /\ chan' = [chan EXCEPT !.callbacks[cat] = Append(@, c)]
  /\ last' = Quiet("subscribe", "call", "ok")
  /\ emits' = <<>>
  /\ UNCHANGED <<owner, typ, list, mount, posted, up, state, store, inits,
                 reg, rst, clears, load, upd, keySave>>

\* The function a subscription returned: callbacks.delete(callback)
Unsubscribe(cat, c) ==
  /\ Admitted
  /\ Has(chan.callbacks[cat], c)
  /\ chan' = [chan EXCEPT !.callbacks[cat] = Remove(@, c)]
  /\ last' = Quiet("unsubscribe", "call", "ok")
  /\ emits' = <<>>
  /\ UNCHANGED <<owner, typ, list, mount, posted, up, state, store, inits,
                 reg, rst, clears, load, upd, keySave>>

\* The saveBrowserKey(key) of the subscriber settles
KeySaveDone ==
  /\ keySave # NULL
  /\ keySave' = NULL
  /\ \/ store' = [store EXCEPT !.key = keySave]
     \/ UNCHANGED store
  /\ last' = Quiet("browser-key-updated", "resume", "ok")
  /\ emits' = <<>>
  /\ UNCHANGED <<owner, typ, list, mount, posted, up, state, chan, inits, reg,
                 rst, clears, load, upd>>

\* --------------------------------------------------------------- messaging
MessagingOps ==
  {"sendMessage", "editMessage", "sendImage", "sendFile", "getMessages"}

\* The ChatApiService method each operation delegates to
ApiOf(op) ==
  CASE op = "sendImage" -> "uploadImage"
    [] op = "sendFile" -> "uploadFile"
    [] OTHER -> op

\* if (!state.browserKey) throw new ChatException('Not registered. ...')
PassesRegisteredGuard(st) == Truthy(st.browserKey)

\* The operations without their first guard
MessagingCallUnguarded(op) ==
  /\ Admitted
  /\ \/ /\ ~PassesRegisteredGuard(state)
        /\ last' = Quiet(op, "call", "NotRegistered")
     \/ /\ PassesRegisteredGuard(state)
        /\ \E outcome \in {"ok", "ApiError"} :
             last' = Last(op, "call", outcome, ApiOf(op), state.browserKey,
                          NONE)
  /\ emits' = <<>>
  /\ UNCHANGED <<owner, typ, list, mount, posted, up, state, store, chan,
                 inits, reg, rst, clears, load, upd, keySave>>

\* sendMessage / editMessage / sendImage / sendFile / getMessages: the two
\* guards, then the RemoteAPI call with the held identity, whose result or
\* failure is handed to the caller
MessagingCall(op) ==
  /\ Admitted
  /\ \/ /\ ~state.isInitialized
        /\ last' = Quiet(op, "call", "NotInitialized")
     \/ /\ state.isInitialized
        /\ ~PassesRegisteredGuard(state)
        /\ last' = Quiet(op, "call", "NotRegistered")
     \/ /\ state.isInitialized
        /\ PassesRegisteredGuard(state)
        /\ \E outcome \in {"ok", "ApiError"} :
             last' = Last(op, "call", outcome, ApiOf(op), state.browserKey,
                          NONE)
  /\ emits' = <<>>
  /\ UNCHANGED <<owner, typ, list, mount, posted, up, state, store, chan,
                 inits, reg, rst, clears, load, upd, keySave>>

\* sendMessage(message) against a RemoteAPI that stores what it accepts
SendMessage(message) ==
  /\ Admitted
  /\ \/ /\ ~state.isInitialized
        /\ last' = Quiet("sendMessage", "call", "NotInitialized")
        /\ UNCHANGED posted
     \/ /\ state.isInitialized
        /\ ~PassesRegisteredGuard(state)
        /\ last' = Quiet("sendMessage", "call", "NotRegistered")
        /\ UNCHANGED posted
     \/ /\ state.isInitialized
        /\ PassesRegisteredGuard(state)
        /\ last' = Last("sendMessage", "call", "ApiError", "sendMessage",
                        state.browserKey, NONE)
        /\ UNCHANGED posted
     \/ /\ state.isInitialized
        /\ PassesRegisteredGuard(state)
        /\ Len(posted) < MaxPosted
        /\ posted' = Append(posted, [id |-> Len(posted) + 1,
                                     key |-> state.browserKey,
                                     content |-> message])
        /\ last' = [Last("sendMessage", "call", "ok", "sendMessage",
                         state.browserKey, NONE)
                     EXCEPT !.arg = Obj("message", Str(<<message>>))]
  /\ emits' = <<>>
  /\ UNCHANGED <<owner, typ, list, mount, up, state, store, chan, inits, reg,
                 rst, clears, load, upd, keySave>>

\* ------------------------------------------- the channel, called directly
\* Identities passed to the channel's room operations
RoomKeys == {"k1", "k2"}

\* A synchronous call of a channel method with argument arg, which ran as
\* run
Called(op, arg, run) ==
  /\ chan' = run.ch
  /\ emits' = run.out
  /\ state' = ApplyConn(state, run.conn)
  /\ last' = [Heard(Quiet(op, "call", Ended(run)), run) EXCEPT !.arg = arg]
  /\ UNCHANGED <<owner, typ, list, mount, posted, up, store, inits, reg, rst,
                 clears, load, upd, keySave>>

\* socketService.joinChatRoom(browserKey)
JoinChatRoomCall(browserKey) ==
  /\ Admitted
  /\ Called("joinChatRoom", browserKey,
            JoinChatRoom(Start(chan), browserKey))

\* socketService.leaveChatRoom(browserKey)
LeaveChatRoomCall(browserKey) ==
  /\ Admitted
  /\ Called("leaveChatRoom", browserKey,
            LeaveChatRoom(Start(chan), browserKey))

\* socketService.sendTyping(browserKey, isTyping)
SendTypingCall(browserKey, isTyping) ==
  /\ Admitted
  /\ Called("sendTyping", browserKey,
            SendTyping(Start(chan), browserKey, isTyping))

\* socketService.updateBrowserKey(browserKey)
UpdateBrowserKeyCall(browserKey) ==
  /\ Admitted
  /\ Called("updateBrowserKey", browserKey,
            UpdateBrowserKey(Start(chan), browserKey))

NoCallbacks == [cat \in Categories |-> <<>>]

\* dispose(): this.disconnect(), then the four callback sets are cleared;
\* an exception out of disconnect() leaves them as they are
Dispose(r) ==
  LET closed == Disconnect(r)
  IN IF closed.threw THEN closed
     ELSE [closed EXCEPT !.ch.callbacks = NoCallbacks]

\* socketService.dispose()
DisposeCall ==
  /\ Admitted
  /\ Called("dispose", NULL, Dispose(Start(chan)))

\* ----------------------------------------- the mount effect, the accessors
\* unsubscribe closures an application may hold
MaxClosures == 2

\* Before the mount effect the three refs are null: there is no channel
\* object, and the channel record stands for none
Unmounted == [made |-> FALSE, closures |-> {}]
NoChannel == [NewChannel EXCEPT !.callbacks = NoCallbacks]

\* The provider as first rendered, its effects not yet run
InitUnmounted ==
  /\ state = FreshState
  /\ store \in PersistedStores
  /\ chan = NoChannel
  /\ owner = "awaits"
  /\ mount = Unmounted
  /\ Idle

\* The accessors of the context value and the category each subscribes to
AccessorCategories == {"message", "connection", "typing"}
AccessorOf(cat) ==
  CASE cat = "message" -> "onMessage"
    [] cat = "connection" -> "onConnectionChange"
    [] OTHER -> "onTyping"

\* The closure an accessor returned for callback c: () => {} when bound is
\* FALSE, else the channel's () => callbacks.delete(c)
Closure(cat, c, bound) == [cat |-> cat, c |-> c, bound |-> bound]

\* The mount effect: the three services are constructed and the provider
\* subscribes its connection and identity-update callbacks
MountEffect ==
  /\ ~mount.made
  /\ mount' = [mount EXCEPT !.made = TRUE]
  /\ chan' = NewChannel
  /\ last' = Quiet("mount", "effect", "ok")
  /\ emits' = <<>>
  /\ UNCHANGED <<owner, typ, list, posted, up, state, store, inits, reg, rst,
                 clears, load, upd, keySave>>

\* initialize() before the mount effect:
\* throw new ChatException('Services not initialized'), before the try block
InitializeBeforeMount ==
  /\ Admitted
  /\ ~mount.made
  /\ ~state.isInitialized
  /\ last' = Quiet("initialize", "call", "ServicesNotInitialized")
  /\ emits' = <<>>
  /\ UNCHANGED <<owner, typ, list, mount, posted, up, state, store, chan,
                 inits, reg, rst, clears, load, upd, keySave>>

\* initialize() once the services exist
InitializeMounted ==
  /\ mount.made
  /\ InitializeCall

\* An accessor that raises while there is no channel
AccessorRaising(cat, c) ==
  /\ Admitted
  /\ emits' = <<>>
  /\ \/ /\ ~mount.made
        /\ last' = Quiet(AccessorOf(cat), "call", "ServicesNotInitialized")
        /\ UNCHANGED <<mount, chan>>
     \/ /\ mount.made
        /\ Has(chan.callbacks[cat], c) \/ Subscribed < MaxCallbacks
        /\ Closure(cat, c, TRUE) \in mount.closures
             \/ Cardinality(mount.closures) < MaxClosures
        /\ chan' = [chan EXCEPT !.callbacks[cat] =
                      IF Has(@, c) THEN @ ELSE Append(@, c)]
        /\ mount' = [mount EXCEPT !.closures = @ \cup {Closure(cat, c, TRUE)}]
        /\ last' = [Quiet(AccessorOf(cat), "call", "ok")
                      EXCEPT !.result = <<Closure(cat, c, TRUE)>>]
  /\ UNCHANGED <<owner, typ, list, posted, up, state, store, inits, reg, rst,
                 clears, load, upd, keySave>>

\* onMessage(c) / onConnectionChange(c) / onTyping(c) of the context value:
\*   const socketService = socketServiceRef.current;
\*   if (!socketService) { return () => {}; }
\*   return socketService.onMessage(callback);
Accessor(cat, c) ==
  /\ Admitted
  /\ emits' = <<>>
  /\ \/ /\ ~mount.made
        /\ Closure(cat, c, FALSE) \in mount.closures
             \/ Cardinality(mount.closures) < MaxClosures
        /\ mount' = [mount EXCEPT !.closures = @ \cup {Closure(cat, c, FALSE)}]
        /\ last' = [Quiet(AccessorOf(cat), "call", "ok")
                      EXCEPT !.result = <<Closure(cat, c, FALSE)>>]
        /\ UNCHANGED chan
     \/ /\ mount.made
        /\ Has(chan.callbacks[cat], c) \/ Subscribed < MaxCallbacks
        /\ Closure(cat, c, TRUE) \in mount.closures
             \/ Cardinality(mount.closures) < MaxClosures
        /\ chan' = [chan EXCEPT !.callbacks[cat] =
                      IF Has(@, c) THEN @ ELSE Append(@, c)]
        /\ mount' = [mount EXCEPT !.closures = @ \cup {Closure(cat, c, TRUE)}]
        /\ last' = [Quiet(AccessorOf(cat), "call", "ok")
                      EXCEPT !.result = <<Closure(cat, c, TRUE)>>]
  /\ UNCHANGED <<owner, typ, list, posted, up, state, store, inits, reg, rst,
                 clears, load, upd, keySave>>

\* The application calls a closure it holds
CallClosure(cl) ==
  /\ Admitted
  /\ cl \in mount.closures
  /\ chan' = IF cl.bound
             THEN [chan EXCEPT !.callbacks[cl.cat] = Remove(@, cl.c)]
             ELSE chan
  /\ last' = [Quiet("closure", "call", "ok") EXCEPT !.result = <<cl>>]
  /\ emits' = <<>>
  /\ UNCHANGED <<owner, typ, list, mount, posted, up, state, store, inits,
                 reg, rst, clears, load, upd, keySave>>

\* ------------------------------------------------------------ useChatTyping
\* setTimeout calls of the hook
MaxTimers == 3

\* Texts of the input field
Texts == {"", "a"}

\* sendTyping(isTyping) of the context value, as rendered with identity
\* browserKey:
\*   if (state.browserKey) socketService.sendTyping(state.browserKey, isTyping)
ContextSendTyping(r, browserKey, isTyping) ==
  IF Truthy(browserKey) THEN SendTyping(r, browserKey, isTyping) ELSE r

\* clearTimeout(typingTimeoutRef.current)
ClearTimeout(timers, ref) == {t \in timers : t.id # ref}

\* setTyping that leaves the pending timeout running
SetTypingKeepingTimer(text) ==
  /\ typ.mounted
  /\ IF text # ""
     THEN /\ typ.scheduled < MaxTimers
          /\ typ' = [typ EXCEPT
                       !.typing = TRUE,
                       !.sent = IF typ.typing THEN @ ELSE Append(@, TRUE),
                       !.scheduled = @ + 1,
                       !.ref = typ.scheduled + 1,
                       !.timers = @ \cup {[id |-> typ.scheduled + 1,
                                           bk |-> state.browserKey]}]
          /\ emits' = IF typ.typing THEN <<>>
                      ELSE ContextSendTyping(Start(chan), state.browserKey,
                                             TRUE).out
     ELSE /\ typ' = [typ EXCEPT
                       !.typing = FALSE,
                       !.sent = IF typ.typing THEN Append(@, FALSE) ELSE @]
          /\ emits' = IF ~typ.typing THEN <<>>
                      ELSE ContextSendTyping(Start(chan), state.browserKey,
                                             FALSE).out
  /\ last' = [Quiet("setTyping", "call", "ok") EXCEPT !.arg = text]
  /\ UNCHANGED <<owner, list, mount, posted, up, state, store, chan, inits,
                 reg, rst, clears, load, upd, keySave>>

\* setTyping(text): the pending timeout is cleared; a non-empty text sends
\* typing(true) when not typing yet and schedules the return to idle, an
\* empty text sends typing(false) when typing
SetTyping(text) ==
  /\ typ.mounted
  /\ IF text # ""
     THEN /\ typ.scheduled < MaxTimers
          /\ typ' = [typ EXCEPT
                       !.typing = TRUE,
                       !.sent = IF typ.typing THEN @ ELSE Append(@, TRUE),
                       !.scheduled = @ + 1,
                       !.ref = typ.scheduled + 1,
                       !.timers = ClearTimeout(@, typ.ref)
                                    \cup {[id |-> typ.scheduled + 1,
                                           bk |-> state.browserKey]}]
          /\ emits' = IF typ.typing THEN <<>>
                      ELSE ContextSendTyping(Start(chan), state.browserKey,
                                             TRUE).out
     ELSE /\ typ' = [typ EXCEPT
                       !.typing = FALSE,
                       !.sent = IF typ.typing THEN Append(@, FALSE) ELSE @,
                       !.ref = 0,
                       !.timers = ClearTimeout(@, typ.ref)]
          /\ emits' = IF ~typ.typing THEN <<>>
                      ELSE ContextSendTyping(Start(chan), state.browserKey,
                                             FALSE).out
  /\ last' = [Quiet("setTyping", "call", "ok") EXCEPT !.arg = text]
  /\ UNCHANGED <<owner, list, mount, posted, up, state, store, chan, inits,
                 reg, rst, clears, load, upd, keySave>>

\* The timeout fires: isCurrentlyTypingRef = false, contextSendTyping(false)
\* of the render that scheduled it, typingTimeoutRef = null
TimerExpires(t) ==
  /\ t \in typ.timers
  /\ typ' = [typ EXCEPT !.typing = FALSE, !.sent = Append(@, FALSE),
                        !.ref = 0, !.timers = @ \ {t}]
  /\ emits' = ContextSendTyping(Start(chan), t.bk, FALSE).out
  /\ last' = [Quiet("typingTimeout", "timer", "ok") EXCEPT !.arg = t.id]
  /\ UNCHANGED <<owner, list, mount, posted, up, state, store, chan, inits,
                 reg, rst, clears, load, upd, keySave>>

\* The hook unmounts: the cleanup clears the pending timeout
TypingUnmount ==
  /\ typ.mounted
  /\ typ' = [typ EXCEPT !.mounted = FALSE,
                        !.timers = ClearTimeout(@, typ.ref)]
  /\ emits' = <<>>
  /\ last' = Quiet("unmount", "effect", "ok")
  /\ UNCHANGED <<owner, list, mount, posted, up, state, store, chan, inits,
                 reg, rst, clears, load, upd, keySave>>

\* ---------------------------------------------------------- useChatMessages
\* Calls of refresh() and of loadMore() that reach loadMessages()
MaxRefreshes == 1
MaxLoadMores == 2

\* The callback the hook's effect passes to onMessage
Hook == 2

\* parseSocketMessage(json).message
ParseSocketMessage(json) ==
  ParseChatMessage(Coalesce(Lookup(json, "message"), json))

\* The payload of a message event for a stored message, bare or wrapped
SocketPayload(row, wrapped) ==
  IF wrapped THEN Obj("message", [t |-> "obj", v |-> MessageJson(row)])
  ELSE MessageJson(row)

Ids(messages) == {messages[n].id : n \in DOMAIN messages}

\* The hook's message callback:
\*   exists ? prev.map(m => m.id === newMessage.id ? newMessage : m)
\*          : [newMessage, ...prev]
Received(prev, newMessage) ==
  IF newMessage.id \in Ids(prev)
  THEN [n \in DOMAIN prev |->
          IF prev[n].id = newMessage.id THEN newMessage ELSE prev[n]]
  ELSE <<newMessage>> \o prev

\* loadMore's update that appends the whole page
AppendedUnfiltered(prev, page) == prev \o page

\* loadMore's update:
\*   [...prev, ...result.messages.filter(m => !existingIds.has(m.id))]
Appended(prev, page) ==
  prev \o SelectSeq(page, LAMBDA m : m.id \notin Ids(prev))

\* What loadMessages(page, perPage), called with identity browserKey in the
\* provider's state, may end with: an exception of a storage read, the
\* empty page (no identity, no profile, or a request that failed), or the
\* page of the RemoteAPI
LoadMessagesResults(browserKey, page, perPage) ==
  LET bk == IF Truthy(browserKey) THEN browserKey ELSE store.key
  IN {[ok |-> FALSE]}
     \cup {[ok |-> TRUE, page |-> CreateEmptyPaginatedMessages(perPage)]}
     \cup IF ~Truthy(bk) \/ ~store.data.present THEN {}
          ELSE {[ok |-> TRUE,
                 page |-> ParsePaginatedMessages(
                            MessagesResponse(posted, bk, page, perPage))]}

\* The call of loadMessages() a load starts
NewFetch(kind, page, perPage) ==
  [id |-> list.refreshes + list.loadMores + 1, kind |-> kind, page |-> page,
   perPage |-> perPage, bk |-> state.browserKey, result |-> <<>>,
   heard |-> {}]

\* refresh(): no load before initialization; otherwise isLoading, no error,
\* and loadMessages(1, perPage)
ListRefresh(perPage) ==
  /\ \/ /\ ~state.isInitialized
        /\ last' = Quiet("refresh", "call", "noop")
        /\ UNCHANGED list
     \/ /\ state.isInitialized
        /\ list.refreshes < MaxRefreshes
        /\ list' = [list EXCEPT
                      !.isLoading = TRUE, !.error = FALSE,
                      !.refreshes = @ + 1,
                      !.fetches = @ \cup {NewFetch("refresh", 1, perPage)}]
        /\ last' = [Quiet("refresh", "call", "pending")
                      EXCEPT !.arg = Num(1)]
  /\ emits' = <<>>
  /\ UNCHANGED <<owner, typ, mount, posted, up, state, store, chan, inits,
                 reg, rst, clears, load, upd, keySave>>

\* loadMore() that tests nothing but initialization
ListLoadMoreUnguarded(perPage) ==
  /\ \/ /\ ~state.isInitialized
        /\ last' = Quiet("loadMore", "call", "noop")
        /\ UNCHANGED list
     \/ /\ state.isInitialized
        /\ list.loadMores < MaxLoadMores
        /\ list' = [list EXCEPT
                      !.isLoading = TRUE,
                      !.loadMores = @ + 1,
                      !.fetches = @ \cup
                        {NewFetch("loadMore",
                                  list.seen.pagination.currentPage + 1,
                                  perPage)}]
        /\ last' = [Quiet("loadMore", "call", "pending")
                      EXCEPT !.arg = Num(list.seen.pagination.currentPage
                                           + 1)]
  /\ emits' = <<>>
  /\ UNCHANGED <<owner, typ, mount, posted, up, state, store, chan, inits,
                 reg, rst, clears, load, upd, keySave>>

\* loadMore(): the guard reads isLoading and pagination of the render the
\* callback was made in; then isLoading and
\* loadMessages(pagination.currentPage + 1, perPage)
ListLoadMore(perPage) ==
  /\ \/ /\ \/ ~state.isInitialized
           \/ list.seen.isLoading
           \/ ~list.seen.pagination.hasMore
        /\ last' = Quiet("loadMore", "call", "noop")
        /\ UNCHANGED list
     \/ /\ state.isInitialized
        /\ ~list.seen.isLoading
        /\ list.seen.pagination.hasMore
        /\ list.loadMores < MaxLoadMores
        /\ list' = [list EXCEPT
                      !.isLoading = TRUE,
                      !.loadMores = @ + 1,
                      !.fetches = @ \cup
                        {NewFetch("loadMore",
                                  list.seen.pagination.currentPage + 1,
                                  perPage)}]
        /\ last' = [Quiet("loadMore", "call", "pending")
                      EXCEPT !.arg = Num(list.seen.pagination.currentPage
                                           + 1)]
  /\ emits' = <<>>
  /\ UNCHANGED <<owner, typ, mount, posted, up, state, store, chan, inits,
                 reg, rst, clears, load, upd, keySave>>

\* React renders the hook again: its callbacks read the current state
ListRender ==
  /\ list.seen # [isLoading |-> list.isLoading,
                  pagination |-> list.pagination]
  /\ list' = [list EXCEPT !.seen = [isLoading |-> list.isLoading,
                                    pagination |-> list.pagination]]
  /\ emits' = <<>>
  /\ UNCHANGED <<owner, typ, mount, posted, up, state, store, chan, inits,
                 reg, rst, clears, load, upd, keySave, last>>

\* loadMessages() of a load gets its outcome: what LocalStore and the
\* RemoteAPI hold at this moment
ListServe(id) ==
  \E f \in list.fetches :
  /\ f.id = id
  /\ f.result = <<>>
  /\ \E result \in LoadMessagesResults(f.bk, f.page, f.perPage) :
       list' = [list EXCEPT
                  !.fetches = (@ \ {f}) \cup
                                {[f EXCEPT !.result = <<result>>]}]
  /\ emits' = <<>>
  /\ UNCHANGED <<owner, typ, mount, posted, up, state, store, chan, inits,
                 reg, rst, clears, load, upd, keySave, last>>

\* refresh() resumes: the page replaces the list; loadMore() resumes: the
\* page is appended; either sets the pagination, or the error when
\* loadMessages() raised, and isLoading = false at the end
ListFetchDone(id) ==
  \E f \in list.fetches :
  /\ f.id = id
  /\ f.result # <<>>
  /\ LET result == f.result[1].page
     IN IF ~f.result[1].ok
        THEN /\ list' = [list EXCEPT !.error = TRUE, !.isLoading = FALSE,
                                     !.fetches = @ \ {f}]
             /\ last' = [Quiet(f.kind, "resume", "StorageError")
                           EXCEPT !.arg = f]
        ELSE /\ list' = [list EXCEPT
                           !.messages =
                             IF f.kind = "refresh" THEN result.messages
                             ELSE Appended(@, result.messages),
                           !.pagination =
                             [hasMore |-> result.hasMore,
                              currentPage |-> result.currentPage,
                              lastPage |-> result.lastPage],
                           !.isLoading = FALSE,
                           !.fetches = @ \ {f}]
             /\ last' = [Quiet(f.kind, "resume", "ok")
                           EXCEPT !.arg = f, !.result = <<result>>]
  /\ emits' = <<>>
  /\ UNCHANGED <<owner, typ, mount, posted, up, state, store, chan, inits,
                 reg, rst, clears, load, upd, keySave>>

\* The RemoteAPI stores a message an agent wrote in the chat of identity k
ServerStores(k, content) ==
  /\ Len(posted) < MaxPosted
  /\ posted' = Append(posted, [id |-> Len(posted) + 1, key |-> k,
                               content |-> content])
  /\ emits' = <<>>
  /\ UNCHANGED <<owner, typ, list, mount, up, state, store, chan, inits, reg,
                 rst, clears, load, upd, keySave, last>>

\* The RemoteAPI stores the edited content of message n
ServerEdits(n, content) ==
  /\ n \in DOMAIN posted
  /\ posted[n].content # content
  /\ posted' = [posted EXCEPT ![n].content = content]
  /\ emits' = <<>>
  /\ UNCHANGED <<owner, typ, list, mount, up, state, store, chan, inits, reg,
                 rst, clears, load, upd, keySave, last>>

\* A message event for stored message n reaches socket s, which is in the
\* room of the message's chat: handleMessage parses the payload and
\* notifies; the hook's callback, when it is called, puts the message in
\* the list
SockMessageOf(s, name, n, wrapped) ==
  /\ chan.socks[s].st = "connected"
  /\ n \in DOMAIN posted
  /\ posted[n].key = chan.key
  /\ LET run == Notify(Start(chan), "message")
         newMessage == ParseSocketMessage(SocketPayload(posted[n], wrapped))
     IN /\ last' = [Heard(Event(name, s, "ok"), run)
                      EXCEPT !.result = <<newMessage>>]
        /\ list' = IF Has(run.invoked, Hook)
                   THEN [list EXCEPT
                           !.messages = Received(@, newMessage),
                           !.fetches =
                             {[f EXCEPT !.heard = @ \cup {newMessage.id}]
                                : f \in @}]
                   ELSE list
  /\ emits' = <<>>
  /\ UNCHANGED <<owner, typ, mount, posted, up, state, store, chan, inits,
                 reg, rst, clears, load, upd, keySave>>

\* ------------------------------------------------ CancelToken and uploads
\* cancel() calls on one handle
MaxCancels == 3
\* POST /upload-image requests issued
MaxUploads == 2

UploadOps == {"sendImage", "sendFile"}

\* const cancelToken = new CancelToken(): the application makes a handle for
\* its next upload
CreateCancelToken ==
  /\ up.pc = "idle"
  /\ up.token # NewCancelToken
  /\ up' = [up EXCEPT !.token = NewCancelToken]
  /\ last' = Quiet("newCancelToken", "call", "ok")
  /\ emits' = <<>>
  /\ UNCHANGED <<owner, typ, list, mount, posted, state, store, chan, inits,
                 reg, rst, clears, load, upd, keySave>>

\* cancel() without the test of _isCancelled
CancelUnguarded ==
  /\ up.token.calls < MaxCancels
  /\ up' = [up EXCEPT !.token = [isCancelled |-> TRUE,
                                 calls |-> @.calls + 1,
                                 triggers |-> @.triggers + 1]]
  /\ last' = Quiet("cancel", "call", "ok")
  /\ emits' = <<>>
  /\ UNCHANGED <<owner, typ, list, mount, posted, state, store, chan, inits,
                 reg, rst, clears, load, upd, keySave>>

\* cancelToken.cancel():
\*   if (!this._isCancelled) { this._isCancelled = true;
\*                             this._source.cancel('Upload cancelled'); }
\* A POST in flight with the handle's axios token is rejected by the
\* trigger, which UploadSettle hands to the caller.
Cancel ==
  /\ up.token.calls < MaxCancels
  /\ up' = [up EXCEPT !.token = [isCancelled |-> TRUE,
                                 calls |-> @.calls + 1,
                                 triggers |-> IF @.isCancelled
                                              THEN @.triggers
                                              ELSE @.triggers + 1]]
  /\ last' = Quiet("cancel", "call", "ok")
  /\ emits' = <<>>
  /\ UNCHANGED <<owner, typ, list, mount, posted, state, store, chan, inits,
                 reg, rst, clears, load, upd, keySave>>

\* sendImage / sendFile without uploadImage's test of the handle
UploadCallUnchecked(op) ==
  /\ Admitted
  /\ up.pc = "idle"
  /\ emits' = <<>>
  /\ \/ /\ ~state.isInitialized
        /\ last' = Quiet(op, "call", "NotInitialized")
        /\ UNCHANGED up
     \/ /\ state.isInitialized
        /\ ~PassesRegisteredGuard(state)
        /\ last' = Quiet(op, "call", "NotRegistered")
        /\ UNCHANGED up
     \/ /\ state.isInitialized
        /\ PassesRegisteredGuard(state)
        /\ up.requests < MaxUploads
        /\ up' = [up EXCEPT !.pc = "posting", !.op = op,
                            !.bk = state.browserKey,
                            !.requests = @ + 1, !.outcome = NONE]
        /\ last' = Last(op, "call", "pending", ApiOf(op), state.browserKey,
                        NONE)
  /\ UNCHANGED <<owner, typ, list, mount, posted, state, store, chan, inits,
                 reg, rst, clears, load, upd, keySave>>

\* sendImage(uri, ..., cancelToken) / sendFile(uri, ..., cancelToken): the
\* two guards of the provider, then apiService.uploadImage (uploadFile calls
\* it): if (cancelToken?.isCancelled) throw new UploadCancelledException(),
\* else await this.client.post('/upload-image', formData, {cancelToken})
UploadCall(op) ==
  /\ Admitted
  /\ up.pc = "idle"
  /\ emits' = <<>>
  /\ \/ /\ ~state.isInitialized
        /\ last' = Quiet(op, "call", "NotInitialized")
        /\ UNCHANGED up
     \/ /\ state.isInitialized
        /\ ~PassesRegisteredGuard(state)
        /\ last' = Quiet(op, "call", "NotRegistered")
        /\ UNCHANGED up
     \/ /\ state.isInitialized
        /\ PassesRegisteredGuard(state)
        /\ up.token.isCancelled
        /\ up' = [up EXCEPT !.op = op, !.bk = state.browserKey,
                            !.outcome = "UploadCancelled"]
        /\ last' = Last(op, "call", "UploadCancelled", ApiOf(op),
                        state.browserKey, NONE)
     \/ /\ state.isInitialized
        /\ PassesRegisteredGuard(state)
        /\ ~up.token.isCancelled
        /\ up.requests < MaxUploads
        /\ up' = [up EXCEPT !.pc = "posting", !.op = op,
                            !.bk = state.browserKey,
                            !.requests = @ + 1, !.outcome = NONE]
        /\ last' = Last(op, "call", "pending", ApiOf(op), state.browserKey,
                        NONE)
  /\ UNCHANGED <<owner, typ, list, mount, posted, state, store, chan, inits,
                 reg, rst, clears, load, upd, keySave>>

\* The POST settles: rejected with a Cancel when the handle was triggered
\* (axios.isCancel(error) -> UploadCancelledException), else the response is
\* returned or the failure is raised as a ChatApiException
UploadSettle ==
  /\ up.pc = "posting"
  /\ emits' = <<>>
  /\ \E outcome \in IF up.token.isCancelled THEN {"UploadCancelled"}
                    ELSE {"ok", "ApiError"} :
       /\ up' = [up EXCEPT !.pc = "idle", !.outcome = outcome]
       /\ last' = Last(up.op, "resume", outcome, ApiOf(up.op), up.bk, NONE)
  /\ UNCHANGED <<owner, typ, list, mount, posted, state, store, chan, inits,
                 reg, rst, clears, load, upd, keySave>>

\* ------------------------------------------- updateBrowser, updateUserData
UpdateOps == {"updateBrowser", "updateUserData"}

\* updateBrowser(userData) / updateUserData(data) (updateName, updatePhone
\* and updateEmail call the latter): the guards and the RemoteAPI call
UpdateCall(op, userData) ==
  /\ Admitted
  /\ upd.pc = "idle"
  /\ emits' = <<>>
  /\ \/ /\ ~state.isInitialized
        /\ last' = Quiet(op, "call", "NotInitialized")
        /\ UNCHANGED upd
     \/ /\ state.isInitialized
        /\ ~PassesRegisteredGuard(state)
        /\ last' = Quiet(op, "call", "NotRegistered")
        /\ UNCHANGED upd
     \/ /\ state.isInitialized
        /\ PassesRegisteredGuard(state)
        /\ CanStart
        /\ upd' = [IdleUpd EXCEPT !.pc = "api", !.op = op, !.data = userData]
        /\ last' = Last(op, "call", "pending", op, state.browserKey, NONE)
  /\ UNCHANGED <<owner, typ, list, mount, posted, up, state, store, chan,
                 inits, reg, rst, clears, load, keySave>>

UpdateFail(err) ==
  /\ last' = Quiet(upd.op, "resume", err)
  /\ upd' = IdleUpd
  /\ emits' = <<>>
  /\ UNCHANGED <<owner, typ, list, mount, posted, up, state, store, chan,
                 inits, reg, rst, clears, load, keySave>>

\* Profiles the server may answer updateUserData with
MergedProfiles == {Obj("name", Str(<<"b">>))}

\* last_messages of a response to updateBrowser: absent, not iterable, or
\* an array with two messages among entries that are no objects
LastMessages ==
  {Undef, Num(1),
   Arr(<<[t |-> "obj",
          v |-> MessageJson([id |-> 1, key |-> "k1", content |-> "m"])],
         Null, Str(<<"x">>),
         [t |-> "obj",
          v |-> MessageJson([id |-> 2, key |-> "k1", content |-> "n"])]>>)}

\* What the RemoteAPI may answer updateBrowser with, as
\* parseRegistrationResponse gives it
UpdateBrowserResponses ==
  [browserKey : RotatedKeys \cup {""}, chatId : ChatIds,
   lastMessages : LastMessages]

\* typeof m === 'object' && m !== null
IsObject(m) == m.t \in {"obj", "arr"}

\* for (const m of response.lastMessages) raises on a value that is truthy
\* and not iterable
Iterable(val) == val.t \in {"undef", "null", "arr", "str"}

\* The messages updateBrowser returns: parseChatMessage of every entry that
\* is an object
ParseLastMessages(val) ==
  IF val.t # "arr" THEN <<>>
  ELSE LET objects == SelectSeq(val.v, IsObject)
       IN [n \in DOMAIN objects |-> ParseChatMessage(objects[n].v)]

\* A setState that takes the identity of the response as well
UpdatedStateAdoptingKey(st, response) ==
  [st EXCEPT !.chatId = IF response.chatId # NULL THEN response.chatId ELSE @,
             !.browserKey = response.browserKey]

\* setState((prev) => ({ ...prev, chatId: response.chatId ?? prev.chatId }))
UpdatedState(st, response) ==
  [st EXCEPT !.chatId = IF response.chatId # NULL THEN response.chatId ELSE @]

\* The RemoteAPI call settles (updateBrowser's response is a registration
\* response, updateUserData's carries the server's merged profile), then
\* updateBrowser parses the last messages, then
\* await storageService.saveUserData(...) and, in updateBrowser, setState
UpdateFinish ==
  /\ upd.pc = "api"
  /\ \/ UpdateFail("ApiError")
     \/ UpdateFail("StorageError")
     \/ /\ upd.op = "updateBrowser"
        /\ \E response \in UpdateBrowserResponses :
             /\ ~Iterable(response.lastMessages)
             /\ last' = [Quiet(upd.op, "resume", "TypeError")
                           EXCEPT !.arg = response.lastMessages]
        /\ upd' = IdleUpd
        /\ emits' = <<>>
        /\ UNCHANGED <<owner, typ, list, mount, posted, up, state, store,
                       chan, inits, reg, rst, clears, load, keySave>>
     \/ /\ upd.op = "updateBrowser"
        /\ \E response \in UpdateBrowserResponses :
             /\ Iterable(response.lastMessages)
             /\ state' = UpdatedState(state, response)
             /\ last' = [Quiet(upd.op, "resume", "ok")
                           EXCEPT !.arg = response.lastMessages,
                                  !.result =
                                    <<ParseLastMessages(
                                        response.lastMessages)>>]
        /\ store' = [store EXCEPT !.data = Data(upd.data)]
        /\ upd' = IdleUpd
        /\ emits' = <<>>
        /\ UNCHANGED <<owner, typ, list, mount, posted, up, chan, inits, reg,
                       rst, clears, load, keySave>>
     \/ /\ upd.op = "updateUserData"
        /\ \E merged \in MergedProfiles :
             store' = [store EXCEPT !.data = Data(merged)]
        /\ last' = Quiet(upd.op, "resume", "ok")
        /\ upd' = IdleUpd
        /\ emits' = <<>>
        /\ UNCHANGED <<owner, typ, list, mount, posted, up, state, chan,
                       inits, reg, rst, clears, load, keySave>>

\* ------------------------------------------------------------ loadMessages
\* The arguments of the call in flight
LoadArg ==
  [f \in {"page", "perPage"} |->
     IF f = "page" THEN Num(load.page) ELSE Num(load.perPage)]

\* loadMessages() returns, or raises when result is empty
LoadEnd(outcome, api, result) ==
  /\ load' = IdleLoad
  /\ last' = [Last("loadMessages", "resume", outcome, api,
                    IF api = NONE THEN NULL ELSE load.bk, NONE)
                EXCEPT !.arg = LoadArg, !.result = result]

\* loadMessages(page, perPage): the guard, then the identity held in memory
\* or, without one, storageService.getBrowserKey()
LoadCall(page, perPage) ==
  /\ Admitted
  /\ load.pc = "idle"
  /\ emits' = <<>>
  /\ \/ /\ ~state.isInitialized
        /\ last' = Quiet("loadMessages", "call", "NotInitialized")
        /\ UNCHANGED load
     \/ /\ state.isInitialized
        /\ CanStart
        /\ load' = [pc |-> IF Truthy(state.browserKey) THEN "readData"
                           ELSE "readKey",
                    bk |-> IF Truthy(state.browserKey) THEN state.browserKey
                           ELSE NULL,
                    page |-> page, perPage |-> perPage]
        /\ last' = Quiet("loadMessages", "call", "pending")
  /\ UNCHANGED <<owner, typ, list, mount, posted, up, state, store, chan,
                 inits, reg, rst, clears, upd, keySave>>

\* browserKey = await storageService.getBrowserKey()
LoadReadKey ==
  /\ load.pc = "readKey"
  /\ emits' = <<>>
  /\ \/ LoadEnd("StorageError", NONE, <<>>)
     \/ /\ ~Truthy(store.key)
        /\ LoadEnd("empty", NONE,
                   <<CreateEmptyPaginatedMessages(load.perPage)>>)
     \/ /\ Truthy(store.key)
        /\ load' = [load EXCEPT !.pc = "readData", !.bk = store.key]
        /\ last' = Quiet("loadMessages", "resume", "pending")
  /\ UNCHANGED <<owner, typ, list, mount, posted, up, state, store, chan,
                 inits, reg, rst, clears, upd, keySave>>

\* userData = await storageService.getUserData(), then
\* apiService.getMessages inside the try block: its page, or the empty
\* page of the catch block
LoadReadData ==
  /\ load.pc = "readData"
  /\ emits' = <<>>
  /\ \/ LoadEnd("StorageError", NONE, <<>>)
     \/ /\ ~store.data.present
        /\ LoadEnd("empty", NONE,
                   <<CreateEmptyPaginatedMessages(load.perPage)>>)
     \/ /\ store.data.present
        /\ \/ LoadEnd("empty", "getMessages",
                      <<CreateEmptyPaginatedMessages(load.perPage)>>)
           \/ LoadEnd("page", "getMessages",
                      <<ParsePaginatedMessages(
                          MessagesResponse(posted, load.bk, load.page,
                                           load.perPage))>>)
  /\ UNCHANGED <<owner, typ, list, mount, posted, up, state, store, chan,
                 inits, reg, rst, clears, upd, keySave>>

\* ----------------------------------------------------------- specification
\* ---- Spec: the session.  The owner awaits each call before the next
\* one; the socket of initialize() connects, drops and reconnects, and
\* identity events, with the storage writes they start, come at any time.
Calls ==
  \/ InitializeNoop
  \/ InitializeCall
  \/ \E userData \in UserDatas : RegisterCall(userData)
  \/ ResetCall

Resumes ==
  \/ \E i \in InitIds : InitializeConfig(i)
  \/ \E i \in InitIds : InitializeFinish(i)
  \/ RegisterResponse
  \/ RegisterFinish
  \/ \E item \in {"key", "data"} : ResetCleared(item)
  \/ \E item \in {"key", "data"} : ResetClearFailed(item)
  \/ KeySaveDone

Events ==
  \/ \E s \in SockIds : SockConnect(s)
  \/ \E s \in SockIds : SockDrop(s)
  \/ \E s \in SockIds : SockReconnect(s)
  \/ \E s \in SockIds, k \in RotatedKeys : SockBrowserKeyUpdated(s, k)

Next ==
  \/ Calls
  \/ Resumes
  \/ Events

Spec == Init /\ [][Next]_vars

\* ---- SpecChan: the channel.  The owner initializes, disconnects and
\* reconnects at will; each socket goes through every event of its life.
ChanCalls ==
  \/ InitializeNoop
  \/ InitializeCall
  \/ DisconnectCall
  \/ ReconnectCall

ChanResumes ==
  \/ \E i \in InitIds : InitializeConfig(i)
  \/ \E i \in InitIds : InitializeFinish(i)
  \/ KeySaveDone

ChanEvents ==
  \/ \E s \in SockIds : SockConnect(s)
  \/ \E s \in SockIds : SockConnectError(s)
  \/ \E s \in SockIds : SockDrop(s)
  \/ \E s \in SockIds : SockReconnect(s)
  \/ \E s \in SockIds : SockGiveUp(s)
  \/ \E s \in SockIds, k \in RotatedKeys : SockBrowserKeyUpdated(s, k)

NextChan ==
  \/ ChanCalls
  \/ ChanResumes
  \/ ChanEvents

SpecChan == Init /\ [][NextChan]_vars

\* ---- SpecOps: the guarded operations.  As Spec, with the messaging,
\* profile and history operations among the calls, on a channel that
\* connects and rotates the identity.
OpsCalls ==
  \/ InitializeNoop
  \/ InitializeCall
  \/ \E userData \in UserDatas : RegisterCall(userData)
  \/ ResetCall
  \/ \E op \in MessagingOps : MessagingCall(op)
  \/ \E op \in UpdateOps : UpdateCall(op, Obj("name", Str(<<"b">>)))
  \/ \E page \in Pages, perPage \in PerPages : LoadCall(page, perPage)

OpsResumes ==
  \/ Resumes
  \/ UpdateFinish
  \/ LoadReadKey
  \/ LoadReadData

OpsEvents ==
  \/ \E s \in SockIds : SockConnect(s)
  \/ \E s \in SockIds, k \in RotatedKeys : SockBrowserKeyUpdated(s, k)

NextOps ==
  \/ OpsCalls
  \/ OpsResumes
  \/ OpsEvents

SpecOps == Init /\ [][NextOps]_vars

\* ---- SpecRace: the owner's state-changing calls overlap (an initialize()
\* of the provider's effect with one of the application, a reset() during a
\* register(), ...), up to MaxInFlight of them.
RaceCalls ==
  \/ InitializeCall
  \/ \E userData \in UserDatas : RegisterCall(userData)
  \/ ResetCall

RaceEvents ==
  \/ \E s \in SockIds : SockConnect(s)
  \/ \E s \in SockIds, k \in RotatedKeys : SockBrowserKeyUpdated(s, k)

NextRace ==
  \/ RaceCalls
  \/ Resumes
  \/ RaceEvents

SpecRace == InitRace /\ [][NextRace]_vars

\* ---- SpecSubs: the application subscribes and unsubscribes callbacks, some
\* of which throw, around one initialize(); the socket connects, drops,
\* reconnects and delivers message, typing and identity events.
SubsCalls ==
  \/ InitializeCall
  \/ DisconnectCall
  \/ \E cat \in Categories, c \in UserCallbacks : Subscribe(cat, c)
  \/ \E cat \in Categories, c \in UserCallbacks : Unsubscribe(cat, c)

SubsResumes ==
  \/ \E i \in InitIds : InitializeConfig(i)
  \/ \E i \in InitIds : InitializeFinish(i)
  \/ KeySaveDone

SubsEvents ==
  \/ \E s \in SockIds : SockConnect(s)
  \/ \E s \in SockIds : SockDrop(s)
  \/ \E s \in SockIds : SockReconnect(s)
  \/ \E s \in SockIds, k \in RotatedKeys : SockBrowserKeyUpdated(s, k)
  \/ \E s \in SockIds, name \in MessageEvents : SockMessage(s, name)
  \/ \E s \in SockIds : SockTyping(s)

NextSubs ==
  \/ SubsCalls
  \/ SubsResumes
  \/ SubsEvents

SpecSubs == Init /\ [][NextSubs]_vars

\* ---- SpecValidate: register(userData) over the required-field lists a
\* configuration may declare and the profiles an application may submit,
\* on a session that is not initialized or was initialized with such a
\* configuration.
RequiredLists ==
  {<<>>, <<Field("name")>>, <<Field("phone")>>,
   <<Field("name"), Field("phone")>>, <<Field("phone"), Field("name")>>}

FieldValues ==
  {Undef, Null, Str(<<>>), Str(<<"\t", " ">>), Str(<<" ", "a", " ">>),
   Num(0)}

Profiles == UNION {[D -> FieldValues] : D \in SUBSET FieldNames}

InitValidate ==
  /\ store \in PersistedStores
  /\ \/ /\ state = FreshState
        /\ chan = NewChannel
     \/ \E required \in RequiredLists :
          /\ state = InitializedState(FreshState, Config(TRUE, required),
                                      store.key, StoreIsRegistered(store.key))
          /\ chan = Connect(Start(NewChannel), store.key).ch
  /\ owner = "awaits"
  /\ mount = Mounted
  /\ Idle

NextValidate ==
  \/ \E userData \in Profiles : RegisterCall(userData)
  \/ RegisterResponse
  \/ RegisterFinish

SpecValidate == InitValidate /\ [][NextValidate]_vars

\* ---- SpecStale: the owner keeps the functions of an earlier render and
\* calls initialize() through them after the session state has moved on.
NextStale ==
  \/ InitializeNoop
  \/ InitializeCall
  \/ InitializeStale
  \/ \E userData \in UserDatas : RegisterCall(userData)
  \/ ResetCall
  \/ \E i \in InitIds : InitializeConfig(i)
  \/ \E i \in InitIds : InitializeFinish(i)
  \/ RegisterResponse
  \/ RegisterFinish
  \/ \E item \in {"key", "data"} : ResetCleared(item)
  \/ \E item \in {"key", "data"} : ResetClearFailed(item)
  \/ \E s \in SockIds : SockConnect(s)

SpecStale == Init /\ [][NextStale]_vars

\* ---- SpecEcho: the RemoteAPI stores the messages it accepts and returns
\* them; the owner registers, sends and loads, awaiting each call.
NextEcho ==
  \/ InitializeNoop
  \/ InitializeCall
  \/ \E userData \in UserDatas : RegisterCall(userData)
  \/ \E message \in Contents : SendMessage(message)
  \/ \E page \in Pages, perPage \in PerPages : LoadCall(page, perPage)
  \/ \E i \in InitIds : InitializeConfig(i)
  \/ \E i \in InitIds : InitializeFinish(i)
  \/ RegisterResponse
  \/ RegisterFinish
  \/ LoadReadKey
  \/ LoadReadData
  \/ \E s \in SockIds : SockConnect(s)

SpecEcho == Init /\ [][NextEcho]_vars

\* ---- SpecUpload: the owner initializes, registers, makes cancel handles,
\* cancels them and uploads with them.
NextUpload ==
  \/ InitializeNoop
  \/ InitializeCall
  \/ \E userData \in UserDatas : RegisterCall(userData)
  \/ CreateCancelToken
  \/ Cancel
  \/ \E op \in UploadOps : UploadCall(op)
  \/ \E i \in InitIds : InitializeConfig(i)
  \/ \E i \in InitIds : InitializeFinish(i)
  \/ RegisterResponse
  \/ RegisterFinish
  \/ UploadSettle
  \/ \E s \in SockIds : SockConnect(s)

SpecUpload == Init /\ [][NextUpload]_vars

\* ---- SpecRoom: the channel's room operations, typing and dispose called
\* directly, around one initialize(), with subscribers coming and going and
\* the socket connecting, dropping and delivering message events.
NextRoom ==
  \/ InitializeCall
  \/ \E k \in RoomKeys : JoinChatRoomCall(k)
  \/ \E k \in RoomKeys : LeaveChatRoomCall(k)
  \/ \E k \in RoomKeys, isTyping \in BOOLEAN : SendTypingCall(k, isTyping)
  \/ \E k \in RoomKeys : UpdateBrowserKeyCall(k)
  \/ DisposeCall
  \/ \E cat \in {"connection", "message"}, c \in UserCallbacks :
       Subscribe(cat, c)
  \/ \E i \in InitIds : InitializeConfig(i)
  \/ \E i \in InitIds : InitializeFinish(i)
  \/ \E s \in SockIds : SockConnect(s)
  \/ \E s \in SockIds : SockDrop(s)
  \/ \E s \in SockIds : SockReconnect(s)
  \/ \E s \in SockIds : SockMessage(s, "App:Events:Chat:MessageEvent")

SpecRoom == Init /\ [][NextRoom]_vars

\* ---- SpecMount: the provider from its first render: the application
\* calls the accessors and initialize() before and after the mount effect
\* and calls the closures it got; the socket connects and delivers message
\* and typing events.
NextMount ==
  \/ MountEffect
  \/ InitializeBeforeMount
  \/ InitializeMounted
  \/ \E cat \in AccessorCategories, c \in {1, 2} : Accessor(cat, c)
  \/ \E cat \in AccessorCategories, c \in {1, 2}, bound \in BOOLEAN :
       CallClosure(Closure(cat, c, bound))
  \/ \E i \in InitIds : InitializeConfig(i)
  \/ \E i \in InitIds : InitializeFinish(i)
  \/ \E s \in SockIds : SockConnect(s)
  \/ \E s \in SockIds : SockMessage(s, "App:Events:Chat:MessageEvent")
  \/ \E s \in SockIds : SockTyping(s)

SpecMount == InitUnmounted /\ [][NextMount]_vars

\* ---- SpecTyping: useChatTyping over a session that initializes, connects
\* and has its identity rotated: keystrokes, timeouts and the unmount.
NextTyping ==
  \/ InitializeCall
  \/ \E text \in Texts : SetTyping(text)
  \/ \E id \in 1..MaxTimers, bk \in {NULL, "k1", "k2"} :
       TimerExpires([id |-> id, bk |-> bk])
  \/ TypingUnmount
  \/ \E i \in InitIds : InitializeConfig(i)
  \/ \E i \in InitIds : InitializeFinish(i)
  \/ KeySaveDone
  \/ \E s \in SockIds : SockConnect(s)
  \/ \E s \in SockIds : SockDrop(s)
  \/ \E s \in SockIds, k \in RotatedKeys : SockBrowserKeyUpdated(s, k)

SpecTyping == Init /\ [][NextTyping]_vars

\* ---- SpecList: useChatMessages under a provider that initializes and
\* connects: refresh and loadMore of pages of one message with their
\* renders, the messages the RemoteAPI stores, an edit of the first one,
\* and the message events of the room.
NextList ==
  \/ InitializeCall
  \/ ListRefresh(1)
  \/ ListLoadMore(1)
  \/ ListRender
  \/ \E id \in 1..(MaxRefreshes + MaxLoadMores) : ListServe(id)
  \/ \E id \in 1..(MaxRefreshes + MaxLoadMores) : ListFetchDone(id)
  \/ ServerStores("k1", "m")
  \/ ServerEdits(1, "n")
  \/ \E s \in SockIds, wrapped \in BOOLEAN, n \in 1..MaxPosted :
       SockMessageOf(s, "App:Events:Chat:MessageEvent", n, wrapped)
  \/ Subscribe("message", Hook)
  \/ \E i \in InitIds : InitializeConfig(i)
  \/ \E i \in InitIds : InitializeFinish(i)
  \/ \E s \in SockIds : SockConnect(s)

SpecList == Init /\ [][NextList]_vars

\* ---- SpecPages: the pages the SDK constructs, from every response body
\* of POST /messages (each field present, null or absent) and as the empty
\* page.
PageResponses ==
  UNION {[D -> {Null, Num(1), Num(2), Num(3)}] :
           D \in SUBSET {"total", "current_page", "per_page", "last_page"}}

\* getMessages(): parsePaginatedMessages(response.data)
ParsedPage(json) ==
  /\ last' = [Quiet("parsePaginatedMessages", "call", "ok")
                EXCEPT !.arg = json,
                       !.result = <<ParsePaginatedMessages(json)>>]
  /\ emits' = <<>>
  /\ UNCHANGED <<owner, typ, list, mount, posted, up, state, store, chan,
                 inits, reg, rst, clears, load, upd, keySave>>

\* createEmptyPaginatedMessages(perPage)
EmptyPage(perPage) ==
  /\ last' = [Quiet("createEmptyPaginatedMessages", "call", "ok")
                EXCEPT !.result = <<CreateEmptyPaginatedMessages(perPage)>>]
  /\ emits' = <<>>
  /\ UNCHANGED <<owner, typ, list, mount, posted, up, state, store, chan,
                 inits, reg, rst, clears, load, upd, keySave>>

SpecPages ==
  Init /\ [][\/ \E json \in PageResponses : ParsedPage(json)
             \/ \E perPage \in PerPages : EmptyPage(perPage)]_vars

\* ------------------------------------------------------------------ claims
\* Sockets that are open: connecting or connected
OpenSockets ==
  {s \in SockIds : chan.socks[s].st \in {"connecting", "connected"}}

\* C1: in every reachable state, registered = true implies that the
\* identity held in the session state is non-null.  (SpecRace)
C1_RegisteredHasIdentity == state.isRegistered => state.browserKey # NULL

\* C2: an initialize() call that fails ends raised, with the failure recorded
\* in state.error, initialized still false and no socket opened by it; in
\* particular a session is never initialized with an inactive or absent
\* configuration.  (Spec)
C2_InitializeFailure ==
  /\ (last.op = "initialize" /\ last.phase = "resume"
        /\ last.outcome \notin {"ok", "pending"}) =>
       /\ last.outcome \in Raised
       /\ state.error = last.outcome
       /\ ~state.isInitialized
       /\ last.connect = NONE
       /\ emits = <<>>
       /\ \A s \in SockIds : chan.socks[s].st = "free"
  /\ state.isInitialized =>
       ~state.remoteConfig.null /\ state.remoteConfig.isActive

C2_Witness ==
  /\ last.op = "initialize"
  /\ last.outcome = "InactiveApp"
  /\ state.error = "InactiveApp"
  /\ ~state.isInitialized

\* C3: a loadMessages() call never ends raised, whatever the session state
\* and whatever RemoteAPI and LocalStore answer.  (SpecOps)
C3_LoadNeverRaises == last.op = "loadMessages" => last.outcome \notin Raised

\* The characters of s are all whitespace (s is blank after trimming)
Blank(s) == \A i \in 1..Len(s) : s[i] \in Whitespace

\* Some key of the required-field list is absent from the profile, null or
\* undefined in it, or of a string form that is blank
SomeRequiredFieldBlank(requiredFields, userData) ==
  \E i \in 1..Len(requiredFields) :
    LET key == requiredFields[i].key
    IN \/ key \notin DOMAIN userData
       \/ userData[key] \in {Null, Undef}
       \/ Blank(StringOf(userData[key]))

\* C4: on an initialized session, register(P) fails with
\* MissingRequiredField exactly when some key of the configuration's
\* required fields is absent (null or undefined) in P or blank after
\* trimming.  (SpecValidate)
C4_MissingRequiredFieldIff ==
  (last.op = "register" /\ last.phase = "call" /\ state.isInitialized) =>
    (last.outcome = "MissingRequiredField"
       <=> SomeRequiredFieldBlank(state.remoteConfig.requiredFields, last.arg))

C4_Witness ==
  /\ last.op = "register"
  /\ last.phase = "call"
  /\ state.isInitialized
  /\ last.outcome = "MissingRequiredField"
  /\ state.remoteConfig.requiredFields = <<Field("phone"), Field("name")>>
  /\ DOMAIN last.arg = {"name", "phone"}
  /\ last.arg["phone"] = Num(0)
  /\ last.arg["name"] = Str(<<"\t", " ">>)

\* C5: sendMessage, editMessage, sendImage, sendFile and getMessages call
\* RemoteAPI only when the session is initialized and registered; on a
\* session that is initialized but not registered they fail with
\* NotRegistered and call nothing.  (SpecOps)
C5_ApiOnlyWhenRegistered ==
  (last.op \in MessagingOps /\ last.phase = "call") =>
    /\ last.api # NONE => state.isInitialized /\ state.isRegistered
    /\ (state.isInitialized /\ ~state.isRegistered) =>
         last.outcome = "NotRegistered" /\ last.api = NONE

\* The operations that begin with the initialized guard
GuardedOps == {"register"} \cup UpdateOps \cup MessagingOps

\* C6: on a session that is not initialized, register, updateBrowser,
\* updateUserData, sendMessage, editMessage, sendImage, sendFile and
\* getMessages fail with NotInitialized, call no RemoteAPI operation, write
\* nothing to LocalStore and leave the session state as it was.  (SpecOps)
C6_NotInitializedFrame ==
  [][(~state.isInitialized /\ last'.phase = "call" /\ last'.op \in GuardedOps)
       => /\ last'.outcome = "NotInitialized"
          /\ last'.api = NONE
          /\ store' = store
          /\ keySave' = keySave
          /\ clears' = clears
          /\ state' = state
          /\ reg' = reg
          /\ upd' = upd]_vars

C6_Witness ==
  /\ ~state.isInitialized
  /\ last.op = "updateBrowser"
  /\ last.phase = "call"
  /\ last.outcome = "NotInitialized"
  /\ store.key = "k1"

\* C7: at any time at most one socket is open (connecting or connected),
\* also when connect is issued while an earlier connect is in progress.
\* (SpecChan)
C7_AtMostOneSocket == Cardinality(OpenSockets) <= 1

\* C8: a dispatch to the subscribers of a category calls every callback
\* registered for it, also when one of them throws.  (SpecSubs)
C8_EveryCallbackCalled ==
  last.cat # NONE =>
    \A i \in 1..Len(chan.callbacks[last.cat]) :
      Has(last.invoked, chan.callbacks[last.cat][i])

\* The user data item holds the submitted fields, the registered flag and a
\* timestamp
IsRegisteredBlob(data, userData) ==
  /\ data.present
  /\ \A k \in DOMAIN userData \ {"registered", "registrationDate"} :
       Lookup(data.json, k) = userData[k]
  /\ Lookup(data.json, "registered") = Bool(TRUE)
  /\ Lookup(data.json, "registrationDate").t = "str"

\* The step in which a register() call returns successfully
RegisterReturns ==
  reg.pc = "saveData" /\ last'.op = "register" /\ last'.outcome = "ok"

\* What C9 states of the channel and the session state on return
RegisterPublished ==
  /\ chan'.key = reg.key
  /\ state'.isRegistered
  /\ state'.browserKey = reg.key
  /\ state'.chatId = reg.chat

\* C9, as stated: when register() returns successfully with identity K,
\* LocalStore holds K and the enriched profile, the channel tracks K, and
\* the state has registered = true, identity K and the returned chat id or
\* null.  (Spec)
C9_RegisterPostcondition ==
  [][RegisterReturns =>
       /\ store'.key = reg.key
       /\ IsRegisteredBlob(store'.data, reg.data)
       /\ RegisterPublished]_vars

\* C9, amended: register() writes K to LocalStore when the response
\* arrives; when it returns, LocalStore holds the enriched profile, the
\* channel tracks K and the state has registered = true, identity K and the
\* returned chat id or null.  (Spec)
C9_RegisterWritesThenPublishes ==
  [][/\ (reg.pc = "api" /\ reg'.pc = "saveData") => store'.key = reg'.key
     /\ RegisterReturns =>
          /\ IsRegisteredBlob(store'.data, reg.data)
          /\ RegisterPublished]_vars

\* register() has returned with K = "k1" and chat id "c7" while LocalStore
\* holds the identity a 'browser-key-updated' event brought meanwhile
C9_Witness ==
  /\ last.op = "register"
  /\ last.outcome = "ok"
  /\ state.isRegistered
  /\ state.browserKey = "k1"
  /\ state.chatId = "c7"
  /\ chan.key = "k1"
  /\ store.key = "k2"
  /\ IsRegisteredBlob(store.data, Obj("name", Str(<<"a">>)))

\* C10: initialize() with identity K in LocalStore and an active
\* configuration invokes connect with K, and the 'connect' event of the
\* channel's socket makes the channel emit join for "private-chat_" + K
\* with no further call of the owner.  (SpecSubs)
C10_RestoreAndJoin ==
  /\ (last.op = "initialize" /\ last.outcome = "ok" /\ Truthy(store.key)) =>
       last.connect = store.key /\ chan.key = store.key
  /\ (last.op = "connect" /\ last.phase = "event" /\ last.sock = chan.cur
        /\ Truthy(chan.key)) =>
       emits = <<[ev |-> "join", room |-> "private-chat_" \o chan.key,
                  sock |-> chan.cur]>>

\* C11: initialize() on an initialized session is a no-op: a call made
\* while the session state is initialized fetches no configuration, reads
\* nothing from storage, does not connect and leaves the session state
\* unchanged.  (SpecStale)
C11_InitializeNoop ==
  (state.isInitialized /\ last.op = "initialize" /\ last.phase = "call")
    => /\ last.outcome = "noop"
       /\ last.api = NONE
       /\ \A i \in InitIds : inits[i].pc = "idle"

\* C12: once initialized is true it never becomes false again, whatever
\* operation or event follows: reset(), a failed register, a failed later
\* initialize.  (SpecStale)
C12_InitializedIsStable ==
  [][state.isInitialized => state'.isInitialized]_vars

\* An initialized session in which a reset() has completed, a register or
\* a later initialize() has failed
C12_Witness ==
  /\ state.isInitialized
  /\ last.phase = "resume"
  /\ \/ last.op = "reset" /\ last.outcome = "ok"
     \/ last.op = "register" /\ last.outcome = "ApiError"
     \/ last.op = "initialize" /\ last.outcome = "InactiveApp"

\* A step on which a waiting reset() returns normally
ResetCompletes ==
  rst = "clearing" /\ rst' = "idle" /\ last'.outcome = "ok"

\* What reset() leaves of the session state and the channel, and the
\* fields it must not touch between its call and its return
ResetLeaves ==
  /\ state'.isInitialized = state.isInitialized
  /\ state'.remoteConfig = state.remoteConfig
  /\ state'.error = state.error
  /\ ResetCompletes =>
       /\ store'.data = NoData
       /\ chan'.cur = 0 /\ OpenSockets' = {}
       /\ ~state'.isConnected
       /\ ~state'.isRegistered
       /\ state'.browserKey = NULL
       /\ state'.chatId = NULL

ResetLeft ==
  /\ store.data = NoData
  /\ chan.cur = 0
  /\ ~state.isConnected
  /\ ~state.isRegistered
  /\ state.browserKey = NULL
  /\ state.chatId = NULL

\* The state of an initialized session that a completed reset() left and
\* no register has changed since: the socket initialize() opened is gone
\* and storage holds no identity a registration wrote
AfterCompletedReset ==
  /\ ResetLeft
  /\ ~state.remoteConfig.null
  /\ store.key \notin ServerKeys

\* A step of a waiting reset(): one removeItem settles, or it returns
ResetStep ==
  rst = "clearing" /\ last'.op = "reset"

C15_OneSnapshotPerOperation ==
  (\/ /\ last.op \in {"initialize", "register", "reset"}
      /\ last.phase = "resume" /\ last.outcome = "ok"
   \/ last.op = "browser-key-updated" /\ last.phase = "event")
    => Published(last) = 1

\* C16: whenever an operation other than loadMessages fails (initialize,
\* register, updateBrowser, updateUserData, sendMessage, editMessage,
\* sendImage, sendFile, getMessages), the failure is raised and the error
\* of the session state is that latest failure.  (SpecOps)
C16_FailureIsRecorded ==
  (/\ last.op \in {"initialize", "register"} \cup UpdateOps \cup MessagingOps
   /\ last.outcome \in Raised)
    => state.error = last.outcome

C18_ClearAllNotPartial ==
  (last.op = "reset" /\ last.phase = "resume" /\ clears = {})
    => ~(StoreIsRegistered(store.key) /\ ~store.data.present)

\* A step on which loadMessages() ends while no profile blob is stored,
\* or while neither the memory (the call went on to read storage) nor
\* storage has an identity
LoadEndsUnregistered ==
  /\ load.pc # "idle" /\ load'.pc = "idle"
  /\ \/ ~store.data.present
     \/ load.pc = "readKey" /\ ~Truthy(store.key)

\* C19: in an initialized session loadMessages(page, N) returns exactly
\* the empty page {messages [], total 0, currentPage 1, perPage N,
\* lastPage 1, hasMore false} and calls no RemoteAPI operation whenever
\* there is no identity in memory or in storage, or no profile blob is
\* stored; with no identity in memory and one in storage, the stored
\* identity is the one used for the fetch.  (SpecOps)
C19_EmptyPageWithoutIdentity ==
  [][/\ LoadEndsUnregistered
          => /\ last'.api = NONE
             /\ last'.result
                  = <<[messages |-> <<>>, total |-> 0, currentPage |-> 1,
                       perPage |-> load.perPage, lastPage |-> 1,
                       hasMore |-> FALSE]>>
     /\ (load.pc = "readKey" /\ load'.pc = "readData")
          => load'.bk = store.key
     /\ (load.pc = "readData" /\ last'.api = "getMessages")
          => last'.apiKey = load.bk]_vars

\* C19 for the calls whose storage reads succeed
C19_EmptyPageUnlessReadFails ==
  [][/\ (LoadEndsUnregistered /\ last'.outcome # "StorageError")
          => /\ last'.api = NONE
             /\ last'.result
                  = <<[messages |-> <<>>, total |-> 0, currentPage |-> 1,
                       perPage |-> load.perPage, lastPage |-> 1,
                       hasMore |-> FALSE]>>
     /\ (load.pc = "readKey" /\ load'.pc = "readData")
          => load'.bk = store.key
     /\ (load.pc = "readData" /\ last'.api = "getMessages")
          => last'.apiKey = load.bk]_vars

\* loadMessages(1) with the default page size has returned; the RemoteAPI
\* answered if it was asked
LoadedFirstPage ==
  /\ last.op = "loadMessages" /\ last.phase = "resume"
  /\ last.outcome \in {"page", "empty"}
  /\ ~(last.outcome = "empty" /\ last.api = "getMessages")
  /\ last.arg["page"] = Num(1)
  /\ last.arg["perPage"] = Num(DefaultPerPage)

\* C20: with a RemoteAPI that stores and returns what it is sent, after a
\* successful register and a successful sendMessage(m), loadMessages(1)
\* returns a page that contains m: every message sent under the identity
\* the session holds is in the page returned.  (SpecEcho)
C20_SentMessageIsLoaded ==
  LoadedFirstPage =>
    \A n \in DOMAIN posted :
      posted[n].key = state.browserKey =>
        \E k \in DOMAIN last.result[1].messages :
          /\ last.result[1].messages[k].id = posted[n].id
          /\ last.result[1].messages[k].content = <<posted[n].content>>

\* A page with a message sent after registration has been loaded
C20_Witness ==
  /\ LoadedFirstPage
  /\ state.isRegistered
  /\ \E n \in DOMAIN posted : posted[n].key = state.browserKey
  /\ last.result[1].messages # <<>>
  /\ last.apiKey = state.browserKey

\* C21: every page the SDK constructs, parsed from a response (absent and
\* null fields defaulted) or built as the empty page, has hasMore equal to
\* currentPage < lastPage, pages with currentPage = lastPage = 1
\* included.  (SpecPages)
C21_HasMoreIsCurrentBelowLast ==
  last.result # <<>> =>
    last.result[1].hasMore
      = (last.result[1].currentPage < last.result[1].lastPage)

\* A page parsed from a response without page numbers: both default to 1
C21_Witness ==
  /\ last.op = "parsePaginatedMessages"
  /\ DOMAIN last.arg = {"total"}
  /\ last.result[1].currentPage = 1 /\ last.result[1].lastPage = 1
  /\ ~last.result[1].hasMore

\* An upload step that reached apiService.uploadImage / uploadFile
UploadReachesApi ==
  /\ last'.op \in UploadOps
  /\ last'.phase = "call"
  /\ last'.api # NONE

\* C22: when the cancel handle is already cancelled at the time
\* uploadImage / uploadFile is called with it, the call fails with
\* UploadCancelled and issues no network request.  (SpecUpload)
C22_CancelledHandleIssuesNoRequest ==
  [][(up.token.isCancelled /\ UploadReachesApi)
       => /\ last'.outcome = "UploadCancelled"
          /\ up'.requests = up.requests
          /\ up'.pc = "idle"]_vars

\* An upload was called with a handle cancelled beforehand, and no request
\* has ever been issued
C22_Witness ==
  /\ last.op \in UploadOps
  /\ last.phase = "call"
  /\ last.api # NONE
  /\ up.token.isCancelled
  /\ last.outcome = "UploadCancelled"
  /\ up.requests = 0

\* C23: however many times cancel() is called on one handle, the underlying
\* cancellation is triggered exactly once; isCancelled is true from the
\* first call on and never returns to false on that handle; and a cancel()
\* after the upload has completed leaves the upload's outcome, the requests
\* issued and the session as they were.  (SpecUpload)
C23_CancelIsIdempotent ==
  /\ [](/\ up.token.isCancelled = (up.token.calls > 0)
        /\ up.token.triggers = IF up.token.calls > 0 THEN 1 ELSE 0)
  /\ [][(up.token.isCancelled /\ last'.op # "newCancelToken")
          => up'.token.isCancelled]_vars
  /\ [][(last'.op = "cancel" /\ up.pc = "idle")
          => /\ up'.outcome = up.outcome
             /\ up'.requests = up.requests
             /\ up'.pc = "idle"
             /\ UNCHANGED <<state, store, chan, posted>>]_vars

\* cancel() was called three times on a handle whose upload had completed
C23_Witness ==
  /\ last.op = "cancel"
  /\ up.token.calls = MaxCancels
  /\ up.token.triggers = 1
  /\ up.outcome = "ok"
  /\ up.pc = "idle"

\* The latest step is a message event under one of the recognised names
MessageHeard == last.phase = "event" /\ last.op \in MessageEvents

\* C24: the channel does not de-duplicate: each inbound message event,
\* under whichever recognised event name it arrives, is dispatched exactly
\* once to each message subscriber, so one logical message arriving under
\* two names makes two calls per subscriber.  (SpecSubs)
C24_EveryVariantReachesEverySubscriber ==
  MessageHeard => last.invoked = chan.callbacks["message"]

\* The same, while no message subscriber throws
C24_EveryVariantUnlessThrown ==
  (MessageHeard /\ ~Threw(chan.callbacks["message"]))
    => last.invoked = chan.callbacks["message"]

\* The socket the channel holds hears 'connect' right after its manager's
\* 'reconnect', while the channel tracks an identity
ReconnectSucceeds ==
  /\ last.op = "reconnect" /\ last.phase = "event"
  /\ last'.op = "connect" /\ last'.phase = "event"
  /\ last'.sock = last.sock
  /\ last.sock = chan.cur
  /\ Truthy(chan.key)

\* C25: after a disconnect the owner did not ask for, when the channel's
\* socket reconnects the channel emits join for the room of the identity
\* it tracks, with no call of the owner.  (SpecSubs)
C25_RejoinOnReconnect ==
  [][ReconnectSucceeds
       => emits' = <<[ev |-> "join", room |-> "private-chat_" \o chan.key,
                      sock |-> chan.cur]>>]_vars

\* The same, while no connection subscriber throws
C25_RejoinUnlessThrown ==
  [][(ReconnectSucceeds /\ ~Threw(chan.callbacks["connection"]))
       => /\ emits' = <<[ev |-> "join", room |-> "private-chat_" \o chan.key,
                         sock |-> chan.cur]>>
          /\ chan'.key = chan.key]_vars

\* The latest call was a channel method that only emits while connected
RoomCall(l) ==
  /\ l.phase = "call"
  /\ l.op \in {"joinChatRoom", "leaveChatRoom", "sendTyping"}

\* C26: while the channel is not connected, joinChatRoom, leaveChatRoom and
\* sendTyping emit nothing and leave the channel, its tracked identity
\* included, as it was; while it is connected, joinChatRoom(K) emits one
\* join, for the room "private-chat_" + K.  (SpecRoom)
C26_RoomCallsNeedConnection ==
  /\ [][(RoomCall(last') /\ ~IsConnected(chan))
          => emits' = <<>> /\ chan' = chan]_vars
  /\ [][(last'.phase = "call" /\ last'.op = "joinChatRoom"
           /\ IsConnected(chan))
          => emits' = <<[ev |-> "join",
                         room |-> "private-chat_" \o last'.arg,
                         sock |-> chan.cur]>>]_vars

\* joinChatRoom("k2") was called while the socket was reconnecting and the
\* channel tracked "k1"
C26_Witness ==
  /\ last.phase = "call" /\ last.op = "joinChatRoom" /\ last.arg = "k2"
  /\ chan.cur # 0
  /\ chan.socks[chan.cur].st = "reconnecting"
  /\ chan.key = "k1"
  /\ emits = <<>>

\* What updateBrowserKey(K) is to emit on a connected channel that tracks
\* old: leave for old's room when there is an old identity, then join for
\* K's room
LeaveThenJoin(old, K, sock) ==
  (IF Truthy(old)
   THEN <<[ev |-> "leave", room |-> "private-chat_" \o old, sock |-> sock]>>
   ELSE <<>>)
  \o <<[ev |-> "join", room |-> "private-chat_" \o K, sock |-> sock]>>

\* C27: updateBrowserKey(K) with K the tracked identity emits nothing and
\* changes nothing; otherwise the tracked identity becomes K and, when the
\* channel is connected, a leave for the old identity's room (if there was
\* an old identity) is emitted and then a join for K's room; when it is
\* not connected nothing is emitted.  (SpecRoom)
C27_UpdateIdentityLeavesThenJoins ==
  [][(last'.phase = "call" /\ last'.op = "updateBrowserKey")
       => IF last'.arg = chan.key
          THEN emits' = <<>> /\ chan' = chan
          ELSE IF IsConnected(chan)
               THEN /\ chan' = [chan EXCEPT
                                  !.key = last'.arg,
                                  !.socks[chan.cur].rooms =
                                    (IF Truthy(chan.key)
                                     THEN @ \ {RoomName(chan.key)} ELSE @)
                                    \cup {RoomName(last'.arg)}]
                    /\ emits' = LeaveThenJoin(chan.key, last'.arg, chan.cur)
               ELSE /\ chan' = [chan EXCEPT !.key = last'.arg]
                    /\ emits' = <<>>]_vars

\* updateBrowserKey("k2") on a connected channel that tracked "k1" emitted
\* leave and join
C27_Witness ==
  /\ last.phase = "call" /\ last.op = "updateBrowserKey" /\ last.arg = "k2"
  /\ Len(emits) = 2
  /\ emits[1].ev = "leave" /\ emits[1].room = "private-chat_k1"
  /\ emits[2].ev = "join" /\ emits[2].room = "private-chat_k2"
  /\ chan.key = "k2"

\* The channel as dispose() is to leave it: no socket held, no subscriber,
\* and one more dispose() returns without emitting, notifying or changing
\* anything
Disposed(ch) ==
  /\ ch.cur = 0
  /\ ch.callbacks = NoCallbacks
  /\ Dispose(Start(ch)) = Start(ch)

\* C28: dispose() disconnects the channel and empties the four subscriber
\* sets, so that no subscriber registered before it is called for any later
\* event; further dispose() calls have no effect and do not fail.
\* (SpecRoom)
C28_DisposeEmptiesOnce ==
  /\ [][(last'.phase = "call" /\ last'.op = "dispose")
          => last'.outcome = "ok" /\ Disposed(chan')]_vars
  /\ [][(chan.callbacks = NoCallbacks /\ last'.phase = "event")
          => last'.invoked = <<>>]_vars

\* The same, while no connection subscriber throws
C28_DisposeUnlessThrown ==
  /\ [][(last'.phase = "call" /\ last'.op = "dispose"
           /\ ~Threw(chan.callbacks["connection"]))
          => last'.outcome = "ok" /\ Disposed(chan')]_vars
  /\ [][(chan.callbacks = NoCallbacks /\ last'.phase = "event")
          => last'.invoked = <<>>]_vars

\* The callbacks of sequence cbs, as a set
Members(cbs) == {cbs[i] : i \in 1..Len(cbs)}

\* C29: a socket event dispatched to a category calls every callback
\* subscribed to it at that time, once each; a callback whose unsubscribe
\* closure has been called is not called again, and the others still are.
\* (SpecSubs)
C29_SubscribedIffCalled ==
  (last.phase = "event" /\ last.cat # NONE)
    => last.invoked = chan.callbacks[last.cat]

\* No dispatch calls a callback that is not subscribed, and while no
\* subscriber of the category throws an event calls each subscribed one once
C29_SubscribedIffCalledUnlessThrown ==
  last.cat # NONE =>
    /\ Members(last.invoked) \subseteq Members(chan.callbacks[last.cat])
    /\ (last.phase = "event" /\ ~Threw(chan.callbacks[last.cat]))
         => last.invoked = chan.callbacks[last.cat]

\* The step is a call of onMessage, onConnectionChange or onTyping made
\* before the mount effect has constructed the channel
AccessorBeforeMount ==
  /\ ~mount.made
  /\ last'.phase = "call"
  /\ last'.op \in {AccessorOf(cat) : cat \in AccessorCategories}

\* C30: onMessage, onConnectionChange and onTyping called before the channel
\* is constructed do not fail and return a closure that does nothing when
\* called; a callback passed that way is called for no event, before the
\* mount effect or after it.  (SpecMount)
C30_AccessorBeforeMountIsInert ==
  /\ [][AccessorBeforeMount
          => /\ last'.outcome = "ok"
             /\ \E cat \in AccessorCategories, c \in UserCallbacks :
                  last'.result = <<Closure(cat, c, FALSE)>>
             /\ UNCHANGED <<chan, state, store>>]_vars
  /\ [][(last'.op = "closure" /\ ~last'.result[1].bound)
          => UNCHANGED <<chan, state, store>>]_vars
  /\ [](~mount.made => last.invoked = <<>>)
  /\ [](\A c \in Members(last.invoked) \ {Core} :
          Closure(last.cat, c, TRUE) \in mount.closures)

\* Callback 2 was passed to onMessage before the mount effect only; the
\* channel has since been constructed and connected, and a message event
\* has been dispatched without calling it
C30_Witness ==
  /\ mount.made
  /\ Closure("message", 2, FALSE) \in mount.closures
  /\ Closure("message", 2, TRUE) \notin mount.closures
  /\ MessageHeard
  /\ last.invoked = <<>>

\* C31: in useChatTyping, over any setTyping calls and timeouts, the
\* notifications passed to the provider alternate, beginning with true;
\* at most one timeout is pending at any time, and one is pending exactly
\* while the hook is typing and mounted; and every non-empty setTyping
\* cancels the pending timeout and schedules a new one.  (SpecTyping)
C31_TypingAlternates ==
  /\ [](/\ \A i \in 1..Len(typ.sent) : typ.sent[i] = (i % 2 = 1)
        /\ Cardinality(typ.timers) <= 1
        /\ typ.mounted => (typ.typing <=> typ.timers # {})
        /\ \A t \in typ.timers : t.id = typ.ref)
  /\ [][(last'.op = "setTyping" /\ last'.arg # "")
          => /\ typ.timers \cap typ'.timers = {}
             /\ \E t \in typ'.timers : t.id = typ.scheduled + 1]_vars

\* A keystroke came while a timeout was pending, and later the timeout of
\* that keystroke fired: true, false so far
C31_Witness ==
  /\ last.op = "typingTimeout"
  /\ last.arg = 2
  /\ typ.sent = <<TRUE, FALSE>>
  /\ typ.timers = {}

\* The loads in flight
FetchIds(l) == {f.id : f \in l.fetches}

\* This step is the end of a load of the given kind
ListLoadEnds(kind) ==
  \E f \in list.fetches :
    /\ f.kind = kind
    /\ FetchIds(list') = FetchIds(list) \ {f.id}

\* C32: in useChatMessages no two messages of the list share an id; a
\* message event changes the list either by putting a message with a new id
\* in front or by replacing, in its place, the entry with the message's id;
\* and the end of a loadMore keeps the list as a prefix and appends only
\* ids the list did not hold.  (SpecList)
C32_NoTwoMessagesShareAnId ==
  /\ [](\A i, j \in DOMAIN list.messages :
          list.messages[i].id = list.messages[j].id => i = j)
  /\ [][LET old == list.messages
            new == list'.messages
        IN /\ (FetchIds(list') = FetchIds(list) /\ new # old)
                => \/ /\ new = <<new[1]>> \o old
                      /\ new[1].id \notin Ids(old)
                   \/ /\ Len(new) = Len(old)
                      /\ \E n \in DOMAIN old :
                           /\ new[n].id = old[n].id
                           /\ \A k \in DOMAIN old \ {n} : new[k] = old[k]
           /\ ListLoadEnds("loadMore")
                => /\ Len(new) >= Len(old)
                   /\ SubSeq(new, 1, Len(old)) = old
                   /\ \A k \in (Len(old) + 1)..Len(new) :
                        new[k].id \notin Ids(old)]_vars

\* A loadMore ended whose page held a message that an event had put in the
\* list while the load was in flight
C32_Witness ==
  /\ last.op = "loadMore"
  /\ last.phase = "resume"
  /\ last.outcome = "ok"
  /\ Ids(last.result[1].messages) \cap last.arg.heard # {}
  /\ Len(list.messages) = 2

\* C37: a message that a message event put in the list while a refresh or
\* a loadMore was in flight is in the list when that load has ended.
\* (SpecList)
C37_EventMessageSurvivesLoad ==
  [][\A f \in list.fetches :
       FetchIds(list') = FetchIds(list) \ {f.id}
         => f.heard \subseteq Ids(list'.messages)]_vars

\* The same for loadMore alone, whose update appends to the list as it is
C37_EventMessageSurvivesLoadMore ==
  [][\A f \in list.fetches :
       (f.kind = "loadMore" /\ FetchIds(list') = FetchIds(list) \ {f.id})
         => f.heard \subseteq Ids(list'.messages)]_vars

\* The loadMore calls of loadMessages() in flight
LoadMoreFetches(l) == {f \in l.fetches : f.kind = "loadMore"}

\* C40: loadMore starts a load only when the session is initialized, no
\* load is in progress and hasMore is true, and then for page
\* currentPage + 1; at most one load of loadMore is in flight at any time.
\* (SpecList)
C40_OneLoadMoreInFlight ==
  /\ [](Cardinality(LoadMoreFetches(list)) <= 1)
  /\ [][\A f \in LoadMoreFetches(list') :
          f.id \notin FetchIds(list)
            => /\ state.isInitialized
               /\ ~list.isLoading
               /\ list.pagination.hasMore
               /\ f.page = list.pagination.currentPage + 1]_vars

\* What holds instead: the guard and the page are those of the state the
\* hook was last rendered with
C40_GuardOfTheRender ==
  [][\A f \in LoadMoreFetches(list') :
       f.id \notin FetchIds(list)
         => /\ state.isInitialized
            /\ ~list.seen.isLoading
            /\ list.seen.pagination.hasMore
            /\ f.page = list.seen.pagination.currentPage + 1]_vars

\* The rooms the channel's socket has joined and not left
JoinedRooms(ch) == IF ch.cur = 0 THEN {} ELSE ch.socks[ch.cur].rooms

\* C33: whenever the channel is connected and tracks an identity K, the
\* rooms it has joined and not left are exactly {"private-chat_" + K}.
\* (Spec)
C33_JoinedRoomIsTrackedIdentity ==
  (IsConnected(chan) /\ Truthy(chan.key))
    => JoinedRooms(chan) = {RoomName(chan.key)}

\* A connected channel is in the room of the identity it tracks, and in no
\* room when it tracks none
InTrackedRoom(ch) ==
  IsConnected(ch)
    => JoinedRooms(ch) = IF Truthy(ch.key) THEN {RoomName(ch.key)} ELSE {}

\* What holds instead: every step keeps it, other than the identity-update
\* event and a register() that was given the empty identity
C33_JoinedUnlessUpdated ==
  [][(/\ last'.op # "browser-key-updated"
      /\ chan'.key # ""
      /\ InTrackedRoom(chan))
       => InTrackedRoom(chan')]_vars

\* No call of the owner and no write started by an event is in flight
Quiescent ==
  /\ NoCallInFlight
  /\ clears = {}
  /\ keySave = NULL

\* C34: in every quiescent state of an initialized session the identity in
\* SessionState is the persisted identity and isRegistered is
\* LocalStore.isRegistered(), whatever the interleaving of register, reset
\* and identity-update events.  (SpecRace)
C34_StateAgreesWithStore ==
  (Quiescent /\ state.isInitialized)
    => /\ state.browserKey = store.key
       /\ state.isRegistered = StoreIsRegistered(store.key)

\* register() has just returned normally
RegisterReturned ==
  /\ last.op = "register"
  /\ last.phase = "resume"
  /\ last.outcome = "ok"

\* The channel is in the room of the identity the state holds, or it holds
\* a socket whose next 'connect' joins that room
JoinedOrJoining ==
  \/ RoomName(state.browserKey) \in JoinedRooms(chan)
  \/ /\ chan.cur # 0
     /\ chan.socks[chan.cur].st \in {"connecting", "reconnecting"}
     /\ chan.key = state.browserKey
     /\ Truthy(chan.key)

\* C35: when register() has returned normally, also after a reset() or a
\* disconnect(), the channel is in the room of the issued identity or is
\* on its way there without a call of reconnect(): it holds a socket that
\* is connecting or reconnecting and tracks the identity.  (Spec)
C35_RegisterLeadsToJoin == RegisterReturned => JoinedOrJoining

\* What holds instead: the same for a register() that returns while the
\* channel holds a socket and that was issued a non-empty identity
C35_RegisterJoinsOnHeldSocket ==
  (RegisterReturned /\ chan.cur # 0 /\ Truthy(state.browserKey))
    => JoinedOrJoining

\* C36: whenever SessionState has isRegistered = true its identity is a
\* non-empty string, so that the NotRegistered guard of the operations
\* passes; a register() that was given no identity does not publish
\* isRegistered = true.  (Spec)
C36_RegisteredHasNonEmptyIdentity ==
  /\ [](state.isRegistered
          => /\ state.browserKey \notin {NULL, ""}
             /\ PassesRegisteredGuard(state))
  /\ [][(last'.op = "register" /\ last'.phase = "resume" /\ reg.key = "")
          => (state'.isRegistered => state.isRegistered)]_vars

\* What holds instead, when the owner awaits each call: a registered state
\* holds an identity, which is empty exactly when the RemoteAPI issued none
C36_RegisteredHasIdentityOrNoneIssued ==
  state.isRegistered => state.browserKey \in ServerKeys \cup RotatedKeys

C39_ConnectedOnlyIfCurrentSocketIs == state.isConnected => IsConnected(chan)

\* What the handlers do keep: the flag becomes true without a connected
\* current socket only in a 'reconnect' listener, which runs before the
\* socket's own 'connect', or in a listener of a socket that connect() has
\* replaced without closing; a disconnect() and a reset() that find the
\* channel holding a socket leave it false.
StaleConnected == state.isConnected /\ ~IsConnected(chan)
C39_StaleOnlyByEarlyOrReplacedSocket ==
  [][/\ (~StaleConnected /\ StaleConnected') =>
          /\ last'.phase = "event"
          /\ last'.op = "reconnect" \/ last'.sock # chan'.cur
     /\ (last'.op = "disconnect" /\ last'.phase = "call"
            /\ last'.outcome = "ok" /\ chan.cur # 0) => ~state'.isConnected
     /\ (last'.op = "reset" /\ last'.phase = "resume"
            /\ last'.outcome = "ok" /\ chan.cur # 0) => ~state'.isConnected]_vars

====
